---------------------------- MODULE Spec2Model ----------------------------
(***************************************************************************)
(* A model of mcp_agent_mail's notification path:                          *)
(*   - NotificationBroadcaster (src/src/mcp_agent_mail/sse.py): the        *)
(*     registry of per-subscriber bounded queues, subscribe (an async      *)
(*     generator) and broadcast, serialised by one asyncio.Lock;           *)
(*   - the watcher (src/scripts/watch_mail.py): the dedup guard, the       *)
(*     handler _handle_event and its sinks, the streaming adapter          *)
(*     _watch_sse with its backoff, and the polling adapter                *)
(*     _watch_file_polling with the signal file it reads;                  *)
(*   - the macros (src/src/mcp_agent_mail/macros): ci_gate, which judges   *)
(*     the check runs of a commit, and send_ready_report, which sends the  *)
(*     report once the gate has passed.                                    *)
(*                                                                         *)
(* Granularity.  The tasks are coroutines of one event loop.  A step of    *)
(* the model is a stretch of code between two points where a task may be   *)
(* suspended: `await queue.get()`, the generator's `yield`, and each       *)
(* `async with self._lock`.  The lock's acquisition is kept as a step of   *)
(* its own, and the statements of the two critical sections of subscribe   *)
(* are steps of their own, so that states in which the lock is held are    *)
(* states of the model.  This allows more interleavings than one event     *)
(* loop produces (there the lock is never contended), never fewer.         *)
(***************************************************************************)
EXTENDS Integers, Sequences, FiniteSets, TLC

VARIABLES
    channels,   \* self._channels: key -> list of queues (named by their subscriber)
    lock,       \* self._lock: "free", or the task that holds it
    queue,      \* queue of each subscribe call (asyncio.Queue contents)
    spc,        \* where each subscribe call's generator stands
    skey,       \* key = (project_slug, agent_name) of each subscribe call
    bpc,        \* where the publisher's broadcast call stands
    bev,        \* the event of the broadcast call in progress
    sent,       \* per key: how many broadcast calls were made (numbers the events)
    received,   \* history: the events each generator has yielded, in order
    regAt,      \* history: events delivered to the key when the queue was registered
    dropped,    \* history: how many events overflow discarded from each queue
    last_seen_message_id,   \* watch_mail._last_seen_message_id
    last_seen_timestamp,    \* watch_mail._last_seen_timestamp
    verdict,                \* the last _is_duplicate call: its inputs, the state it saw, its result
    history,                \* history: the message ids fed to _is_duplicate, in order
    enabled,                \* the sinks switched on by main's options
    sink_calls,             \* history: <<sink, message id>> of every sink invocation, in order
    wpc,                    \* where the watcher process is
    retry_delay,            \* _watch_sse's retry_delay, as a fraction <<numerator, denominator>>
    fails,                  \* history: passes through the backoff sleep since the last 200 response
    last_line,              \* history: what the last line read from the stream was
    payload,                \* history: the text an adapter last gave to json.loads
    file_exists,            \* the signal file: whether it is there
    file_mtime,             \* the signal file: st_mtime of its last write
    file_content,           \* the signal file: what its last write put in it
    last_mtime,             \* _watch_file_polling's last_mtime
    fresh,                  \* history: writes of the signal file since the adapter last stat'ed it
    tick,                   \* history: the current tick: envelopes handed, writes its stat saw, file left alone
    method,                 \* main's --method
    exit_code,              \* the status main exits with; -1 while it has not
    outcome,                \* the last _handle_event call past the guard: sinks invoked, whether it raised
    sentinel,               \* the file --sentinel-file names
    buffer,                 \* the file --buffer-file names
    failed,                 \* history: the sinks whose operation has failed in this run
    rpc,                    \* where the send_ready_report call stands
    gate_result,            \* send_ready_report's gate_result
    sent_messages,          \* the calls of am_client.send_message: subject and body
    report,                 \* what send_ready_report returned or raised
    call_args,              \* history: the arguments send_ready_report was called with
    gate_args,              \* history: the arguments of a ci_gate call made on its own
    gate_return             \* what that ci_gate call returned or raised

bvars == <<channels, lock, queue, spc, skey, bpc, bev, sent, received, regAt, dropped>>
dvars == <<last_seen_message_id, last_seen_timestamp, verdict>>
\* the state of the watcher process, which the broadcaster's steps leave alone
ssevars == <<retry_delay, fails, last_line, payload>>
filevars == <<file_exists, file_mtime, file_content>>
pollvars == <<filevars, last_mtime, fresh, tick>>
mainvars == <<enabled, method, exit_code>>
sinkvars == <<sink_calls, outcome, sentinel, buffer, failed>>
wvars == <<mainvars, sinkvars, wpc, ssevars, pollvars>>
\* the state of a send_ready_report call
macrovars == <<rpc, gate_result, sent_messages, report, call_args, gate_args, gate_return>>
clientvars == <<dvars, history, wvars, macrovars>>
vars == <<bvars, clientvars>>

-----------------------------------------------------------------------------
(* Bounds of the model and constants of the program *)

\* asyncio.Queue(maxsize=50)
QueueMaxSize == 50

\* broadcast calls in the interleaving specification
MaxBroadcasts == 4
\* broadcast calls in the overflow specification
MaxBurst == 52
\* events one subscriber may pull in the overflow specification
MaxPulls == 2
\* broadcast calls after which no further queue is registered in the overflow specification
MaxLateJoin == 2
\* largest message id fed to the dedup guard
MaxMessageId == 3
\* events fed to the dedup guard in one run
MaxEvents == 5
\* events one run of the streaming adapter receives
MaxStreamEvents == 1
\* events handed to _handle_event in one run
MaxHandled == 3
\* events handed to _handle_event in one run with failing sinks
MaxSinkEvents == 3
\* consecutive failed connections of the streaming adapter
MaxFails == 11
\* writes of the signal file in one run
MaxWrites == 2

Subs == {"s1", "s2"}
Keys == {<<"proj", "a1">>, <<"proj", "a2">>}
BurstKey == <<"proj", "a1">>
\* no key yet, no event in progress
NoKey == <<"", "">>
Publisher == "pub"

\* message ids (msg.get("id", 0): 0 when absent) and timestamps
\* (data.get("timestamp", ""): empty when absent) of the events fed to the guard
MessageIds == -1 .. MaxMessageId
Timestamps == {"", "t1", "t2"}
\* msg's "from", "subject" and "importance", taken together
Headers == {"h1", "h2"}
\* the envelopes: the fields _handle_event and the sinks read
Envelopes == [message_id : MessageIds, timestamp : Timestamps, headers : Headers]
\* the envelopes the adapters are fed
WireEnvelopes == {e \in Envelopes : e.headers = "h1"}
\* the sinks, in the order _handle_event runs them
SinkOrder == <<"dev_notify", "auto_fetch", "on_notify", "buffer_file", "sentinel_file">>
Sinks == {SinkOrder[i] : i \in 1 .. Len(SinkOrder)}
\* the option sets main is started with
SinkConfigs == {{}, {"dev_notify", "sentinel_file"}, Sinks}
Methods == {"file", "sse", "other"}
\* what a write can leave in the signal file: an envelope, text that is not
\* JSON, or JSON that is not an object
NoEnvelope == [message_id |-> 0, timestamp |-> "", headers |-> "h1"]

\* the check runs GitHub reports for a commit.  A run that is not completed
\* has no conclusion, a completed one has one; html_url may be missing.
\* None is written "None", an absent key "(absent)".
MaxCheckRuns == 2
CheckNames == {"Fast Tests (ubuntu)", "Full Tests", "Lint"}
RunUrls == {"", "http://run/1"}
CheckRuns ==
    {r \in [name : CheckNames, status : {"completed", "in_progress"},
            conclusion : {"success", "failure", "skipped", "cancelled", "None"},
            html_url : RunUrls] :
        (r.status = "completed") <=> (r.conclusion # "None")}
CheckRunLists == UNION {[1 .. n -> CheckRuns] : n \in 0 .. MaxCheckRuns}
\* a commit's SHA: its first seven characters and the rest
Shas == {[head7 |-> "sha123", rest |-> ""], [head7 |-> "0a1b2c3", rest |-> "d4e5f6"]}
NoSha == [head7 |-> "", rest |-> ""]
\* what the gh CLI answers: the PR's head SHA, the check runs, and the call
\* that fails (subprocess.run(..., check=True) raises), if one does
GithubClients ==
    [head_sha : Shas, check_runs : CheckRunLists,
     fails : {"", "get_pr_head_sha", "get_check_runs"}]
\* the arguments of send_ready_report that go into the report
PrNumber == 4
LocalCommands == {<<"pytest">>, <<"pytest", "ruff check">>}
Notes == {"", "reviewed"}
NoGateResult ==
    [ok |-> FALSE, sha |-> NoSha, required |-> << >>, others |-> << >>,
     failed |-> << >>, url |-> "None"]
NoReport ==
    [raised |-> "", message |-> << >>, message_sent |-> FALSE, am_response |-> ""]
NoGateArgs ==
    [called |-> FALSE, pr_number |-> << >>, sha |-> << >>, require_checks |-> << >>,
     allow_skipped |-> {}, require_conclusion |-> "", head_sha |-> NoSha,
     check_runs |-> << >>, fails |-> ""]
NoGateReturn == [raised |-> "", lookups |-> << >>, value |-> NoGateResult]
Contents == [kind : {"envelope"}, data : WireEnvelopes]
            \cup [kind : {"not_json", "not_object"}, data : {NoEnvelope}]
\* the sentinel file while it is absent
NoSentinel == [present |-> FALSE, id |-> 0, headers |-> "h1", timestamp |-> ""]
\* the buffer file while it is absent (present: its lines, each ended by a newline)
NoBuffer == [present |-> FALSE, lines |-> << >>]
\* the record of the last call past the guard, while there was none
NoOutcome == [raised |-> FALSE, invoked |-> << >>, failing |-> {}, fetch |-> ""]

-----------------------------------------------------------------------------
(* NotificationEvent and asyncio.Queue *)

\* NotificationEvent(timestamp, project, agent, message); the n-th event
\* broadcast to a key carries n as its timestamp and message
Event(k, n) == [project |-> k[1], agent |-> k[2], timestamp |-> n]

KeyOf(e) == <<e.project, e.agent>>

NoEvent == Event(NoKey, 0)

\* asyncio.Queue.full(): maxsize > 0 and qsize() >= maxsize
Full(q) == Len(q) >= QueueMaxSize

\* asyncio.Queue.get_nowait(): removes the oldest item; QueueEmpty (suppressed
\* by the caller) leaves the queue as it is
GetNowait(q) == IF q = <<>> THEN q ELSE Tail(q)

\* asyncio.Queue.put_nowait(): QueueFull on a full queue, which broadcast's
\* `except Exception: pass` swallows, leaving the queue as it is
PutNowait(q, e) == IF Full(q) THEN q ELSE Append(q, e)

\* faulty variant: no room is made: put_nowait raises QueueFull, which is swallowed
EnqueueDropNewest(q, e) == PutNowait(q, e)

\* faulty variant: the queue has no maxsize
EnqueueUnbounded(q, e) == Append(q, e)

\* the body of broadcast's loop for one queue
Enqueue(q, e) == PutNowait(IF Full(q) THEN GetNowait(q) ELSE q, e)

\* self._channels.get(key, [])
ChannelsGet(k) == IF k \in DOMAIN channels THEN channels[k] ELSE <<>>

Range(f) == {f[i] : i \in DOMAIN f}

\* faulty variant: only the first queue of the key is served
TargetsFirstOnly(k) ==
    IF ChannelsGet(k) = << >> THEN {} ELSE {ChannelsGet(k)[1]}

\* faulty variant: the lookup takes every key of the event's project
TargetsAnyAgent(k) ==
    UNION {Range(channels[k2]) : k2 \in {x \in DOMAIN channels : x[1] = k[1]}}

\* the queues broadcast's loop visits: for q in queues
Targets(k) == Range(ChannelsGet(k))

\* faulty variant: the comprehension keeps every queue
WithoutKeep(list, s) == list

\* [q for q in self._channels[key] if q is not queue]
Without(list, s) == SelectSeq(list, LAMBDA x : x # s)

\* events of key k that broadcast has pushed to the queues so far
Delivered(k) == IF bpc # "idle" /\ KeyOf(bev) = k THEN sent[k] - 1 ELSE sent[k]

-----------------------------------------------------------------------------
(* Initial state: NotificationBroadcaster.__init__, and the module globals *)

InitBroadcaster ==
    /\ channels = << >>
    /\ lock = "free"
    /\ queue = [s \in Subs |-> << >>]
    /\ spc = [s \in Subs |-> "none"]
    /\ skey = [s \in Subs |-> NoKey]
    /\ bpc = "idle"
    /\ bev = NoEvent
    /\ sent = [k \in Keys |-> 0]
    /\ received = [s \in Subs |-> << >>]
    /\ regAt = [s \in Subs |-> 0]
    /\ dropped = [s \in Subs |-> 0]

InitDedup ==
    /\ last_seen_message_id = 0
    /\ last_seen_timestamp = ""
    /\ verdict = [called |-> FALSE, message_id |-> 0, timestamp |-> "",
                  seen_id |-> 0, seen_timestamp |-> "", result |-> FALSE]
    /\ history = << >>

\* the watcher before main is entered
InitWatcher ==
    /\ enabled = {}
    /\ sink_calls = << >>
    /\ wpc = "init"
    /\ retry_delay = <<1, 1>>
    /\ fails = 0
    /\ last_line = "none"
    /\ payload = [kind |-> "not_json", data |-> NoEnvelope]
    /\ file_exists = FALSE
    /\ file_mtime = 0
    /\ file_content = [kind |-> "not_json", data |-> NoEnvelope]
    /\ last_mtime = 0
    /\ fresh = 0
    /\ tick = [handed |-> 0, seen |-> 0, quiet |-> TRUE]
    /\ method = "none"
    /\ exit_code = -1
    /\ outcome = NoOutcome
    /\ sentinel = NoSentinel
    /\ buffer = NoBuffer
    /\ failed = {}

InitMacros ==
    /\ rpc = "idle"
    /\ gate_result = NoGateResult
    /\ sent_messages = << >>
    /\ report = NoReport
    /\ call_args = [local_commands |-> << >>, notes |-> ""]
    /\ gate_args = NoGateArgs
    /\ gate_return = NoGateReturn

Init == InitBroadcaster /\ InitDedup /\ InitWatcher /\ InitMacros

-----------------------------------------------------------------------------
(* subscribe: an async generator *)

\* subscribe(project_slug, agent_name) is called: the generator object (the
\* handle) is returned, and none of the body has run
SubscribeCall(s, k) ==
    /\ spc[s] = "none"
    /\ spc' = [spc EXCEPT ![s] = "created"]
    /\ skey' = [skey EXCEPT ![s] = k]
    /\ UNCHANGED clientvars
    /\ UNCHANGED <<channels, lock, queue, bpc, bev, sent, received, regAt, dropped>>

\* the consumer's first pull starts the body: the queue is allocated and the
\* generator reaches `async with self._lock`
FirstPull(s) ==
    /\ spc[s] = "created"
    /\ spc' = [spc EXCEPT ![s] = "sub_lock"]
    /\ queue' = [queue EXCEPT ![s] = << >>]
    /\ UNCHANGED clientvars
    /\ UNCHANGED <<channels, lock, skey, bpc, bev, sent, received, regAt, dropped>>

\* the handle is closed or dropped before its first pull: the body never runs
CloseUnstarted(s) ==
    /\ spc[s] = "created"
    /\ spc' = [spc EXCEPT ![s] = "done"]
    /\ UNCHANGED clientvars
    /\ UNCHANGED <<channels, lock, queue, skey, bpc, bev, sent, received, regAt, dropped>>

SubAcquire(s) ==
    /\ spc[s] = "sub_lock"
    /\ lock = "free"
    /\ lock' = s
    /\ spc' = [spc EXCEPT ![s] = "sub_key"]
    /\ UNCHANGED clientvars
    /\ UNCHANGED <<channels, queue, skey, bpc, bev, sent, received, regAt, dropped>>

\* if key not in self._channels: self._channels[key] = []
SubEnsureKey(s) ==
    /\ spc[s] = "sub_key"
    /\ channels' = IF skey[s] \in DOMAIN channels THEN channels
                   ELSE channels @@ (skey[s] :> << >>)
    /\ spc' = [spc EXCEPT ![s] = "sub_append"]
    /\ UNCHANGED clientvars
    /\ UNCHANGED <<lock, queue, skey, bpc, bev, sent, received, regAt, dropped>>

\* faulty variant: the consuming loop is inside `async with self._lock`
SubAppendHoldLock(s) ==
    /\ spc[s] = "sub_append"
    /\ channels' = [channels EXCEPT ![skey[s]] = Append(@, s)]
    /\ spc' = [spc EXCEPT ![s] = "get"]
    /\ regAt' = [regAt EXCEPT ![s] = Delivered(skey[s])]
    /\ UNCHANGED clientvars
    /\ UNCHANGED <<lock, queue, skey, bpc, bev, sent, received, dropped>>

\* self._channels[key].append(queue), and the lock is released
SubAppend(s) ==
    /\ spc[s] = "sub_append"
    /\ channels' = [channels EXCEPT ![skey[s]] = Append(@, s)]
    /\ lock' = "free"
    /\ spc' = [spc EXCEPT ![s] = "get"]
    /\ regAt' = [regAt EXCEPT ![s] = Delivered(skey[s])]
    /\ UNCHANGED clientvars
    /\ UNCHANGED <<queue, skey, bpc, bev, sent, received, dropped>>

\* faulty variant: the newest pending event is taken
GetNewest(s) ==
    /\ spc[s] = "get"
    /\ queue[s] # << >>
    /\ queue' = [queue EXCEPT ![s] = SubSeq(@, 1, Len(@) - 1)]
    /\ received' = [received EXCEPT ![s] = Append(@, queue[s][Len(queue[s])])]
    /\ spc' = [spc EXCEPT ![s] = "yielded"]
    /\ UNCHANGED clientvars
    /\ UNCHANGED <<channels, lock, skey, bpc, bev, sent, regAt, dropped>>

\* event = await queue.get(); yield event
Get(s) ==
    /\ spc[s] = "get"
    /\ queue[s] # << >>
    /\ queue' = [queue EXCEPT ![s] = Tail(@)]
    /\ received' = [received EXCEPT ![s] = Append(@, Head(queue[s]))]
    /\ spc' = [spc EXCEPT ![s] = "yielded"]
    /\ UNCHANGED clientvars
    /\ UNCHANGED <<channels, lock, skey, bpc, bev, sent, regAt, dropped>>

\* the consumer pulls again: the generator resumes after the yield
Resume(s) ==
    /\ spc[s] = "yielded"
    /\ spc' = [spc EXCEPT ![s] = "get"]
    /\ UNCHANGED clientvars
    /\ UNCHANGED <<channels, lock, queue, skey, bpc, bev, sent, received, regAt, dropped>>

\* the task is cancelled while suspended in queue.get(): CancelledError is
\* raised at the await and the finally clause starts
CancelWaiting(s) ==
    /\ spc[s] = "get"
    /\ spc' = [spc EXCEPT ![s] = "fin_lock"]
    /\ UNCHANGED clientvars
    /\ UNCHANGED <<channels, lock, queue, skey, bpc, bev, sent, received, regAt, dropped>>

\* the consumer stops iterating, closes the handle or raises while it holds
\* an event: GeneratorExit (aclose, or the loop's finalizer) is raised at the
\* yield and the finally clause starts
CloseYielded(s) ==
    /\ spc[s] = "yielded"
    /\ spc' = [spc EXCEPT ![s] = "fin_lock"]
    /\ UNCHANGED clientvars
    /\ UNCHANGED <<channels, lock, queue, skey, bpc, bev, sent, received, regAt, dropped>>

FinAcquire(s) ==
    /\ spc[s] = "fin_lock"
    /\ lock = "free"
    /\ lock' = s
    /\ spc' = [spc EXCEPT ![s] = "fin_filter"]
    /\ UNCHANGED clientvars
    /\ UNCHANGED <<channels, queue, skey, bpc, bev, sent, received, regAt, dropped>>

\* if key in self._channels: self._channels[key] = [q ... if q is not queue]
FinFilter(s) ==
    /\ spc[s] = "fin_filter"
    /\ channels' = IF skey[s] \in DOMAIN channels
                   THEN [channels EXCEPT ![skey[s]] = Without(@, s)]
                   ELSE channels
    /\ spc' = [spc EXCEPT ![s] = "fin_del"]
    /\ UNCHANGED clientvars
    /\ UNCHANGED <<lock, queue, skey, bpc, bev, sent, received, regAt, dropped>>

\* faulty variant: the emptied list stays in the mapping
FinDelKeepKey(s) ==
    /\ spc[s] = "fin_del"
    /\ lock' = "free"
    /\ queue' = [queue EXCEPT ![s] = << >>]
    /\ spc' = [spc EXCEPT ![s] = "done"]
    /\ UNCHANGED clientvars
    /\ UNCHANGED <<channels, skey, bpc, bev, sent, received, regAt, dropped>>

\* if not self._channels[key]: del self._channels[key]; the lock is released
\* and the generator, with its queue, is gone
FinDel(s) ==
    /\ spc[s] = "fin_del"
    /\ channels' = IF skey[s] \in DOMAIN channels /\ channels[skey[s]] = << >>
                   THEN [k \in DOMAIN channels \ {skey[s]} |-> channels[k]]
                   ELSE channels
    /\ lock' = "free"
    /\ queue' = [queue EXCEPT ![s] = << >>]
    /\ spc' = [spc EXCEPT ![s] = "done"]
    /\ UNCHANGED clientvars
    /\ UNCHANGED <<skey, bpc, bev, sent, received, regAt, dropped>>

-----------------------------------------------------------------------------
(* broadcast *)

\* broadcast(event) is called and reaches `async with self._lock`
BroadcastCall(k) ==
    /\ bpc = "idle"
    /\ bev' = Event(k, sent[k] + 1)
    /\ sent' = [sent EXCEPT ![k] = @ + 1]
    /\ bpc' = "b_lock"
    /\ UNCHANGED clientvars
    /\ UNCHANGED <<channels, lock, queue, spc, skey, received, regAt, dropped>>

BroadcastAcquire ==
    /\ bpc = "b_lock"
    /\ lock = "free"
    /\ lock' = Publisher
    /\ bpc' = "b_locked"
    /\ UNCHANGED clientvars
    /\ UNCHANGED <<channels, queue, spc, skey, bev, sent, received, regAt, dropped>>

\* faulty variant: the lookup is self._channels.setdefault(key, [])
BroadcastDeliverSetdefault ==
    /\ bpc = "b_locked"
    /\ LET queues == Targets(KeyOf(bev)) IN
        /\ queue' = [s \in Subs |-> IF s \in queues THEN Enqueue(queue[s], bev)
                                    ELSE queue[s]]
        /\ dropped' = [s \in Subs |-> IF s \in queues /\ Full(queue[s])
                                      THEN dropped[s] + 1 ELSE dropped[s]]
    /\ channels' = IF KeyOf(bev) \in DOMAIN channels THEN channels
                   ELSE channels @@ (KeyOf(bev) :> << >>)
    /\ lock' = "free"
    /\ bpc' = "idle"
    /\ bev' = NoEvent
    /\ UNCHANGED clientvars
    /\ UNCHANGED <<spc, skey, sent, received, regAt>>

\* faulty variant: the event is enqueued with `await q.put(event)`, which waits for
\* room in a full queue
BroadcastDeliverBlocking ==
    /\ bpc = "b_locked"
    /\ \A s \in Targets(KeyOf(bev)) : ~Full(queue[s])
    /\ queue' = [s \in Subs |-> IF s \in Targets(KeyOf(bev))
                                THEN Append(queue[s], bev) ELSE queue[s]]
    /\ lock' = "free"
    /\ bpc' = "idle"
    /\ bev' = NoEvent
    /\ UNCHANGED clientvars
    /\ UNCHANGED <<channels, spc, skey, sent, received, regAt, dropped>>

\* queues = self._channels.get(key, []); if not queues: return;
\* for q in queues: drop the oldest if full, put_nowait; the lock is released
BroadcastDeliver ==
    /\ bpc = "b_locked"
    /\ LET queues == Targets(KeyOf(bev)) IN
        /\ queue' = [s \in Subs |-> IF s \in queues THEN Enqueue(queue[s], bev)
                                    ELSE queue[s]]
        /\ dropped' = [s \in Subs |-> IF s \in queues /\ Full(queue[s])
                                      THEN dropped[s] + 1 ELSE dropped[s]]
    /\ lock' = "free"
    /\ bpc' = "idle"
    /\ bev' = NoEvent
    /\ UNCHANGED clientvars
    /\ UNCHANGED <<channels, spc, skey, sent, received, regAt>>

-----------------------------------------------------------------------------
(* The watcher's dedup guard: watch_mail._is_duplicate *)

\* faulty variant: the id test is strict
DupVerdictStrict(message_id, timestamp) ==
    \/ message_id # 0 /\ message_id < last_seen_message_id
    \/ /\ timestamp # ""
       /\ timestamp = last_seen_timestamp
       /\ message_id = last_seen_message_id

\* faulty variant: only the id seen last is a duplicate
DupVerdictLastOnly(message_id, timestamp) ==
    \/ message_id # 0 /\ message_id = last_seen_message_id
    \/ /\ timestamp # ""
       /\ timestamp = last_seen_timestamp
       /\ message_id = last_seen_message_id

\* the two tests that return True
DupVerdict(message_id, timestamp) ==
    \/ message_id # 0 /\ message_id <= last_seen_message_id
    \/ /\ timestamp # ""
       /\ timestamp = last_seen_timestamp
       /\ message_id = last_seen_message_id

\* faulty variant: the marks are written on every call, duplicate or not
is_duplicate_always_marks(message_id, timestamp) ==
    /\ last_seen_message_id' = IF message_id # 0 THEN message_id
                               ELSE last_seen_message_id
    /\ last_seen_timestamp' = IF timestamp # "" THEN timestamp
                              ELSE last_seen_timestamp
    /\ verdict' = [called |-> TRUE,
                   message_id |-> message_id, timestamp |-> timestamp,
                   seen_id |-> last_seen_message_id,
                   seen_timestamp |-> last_seen_timestamp,
                   result |-> DupVerdict(message_id, timestamp)]

\* _is_duplicate(message_id, timestamp): the verdict, and on a novel event the
\* marks are raised
is_duplicate(message_id, timestamp) ==
    LET dup == DupVerdict(message_id, timestamp) IN
    /\ last_seen_message_id' = IF ~dup /\ message_id # 0 THEN message_id
                               ELSE last_seen_message_id
    /\ last_seen_timestamp' = IF ~dup /\ timestamp # "" THEN timestamp
                              ELSE last_seen_timestamp
    /\ verdict' = [called |-> TRUE,
                   message_id |-> message_id, timestamp |-> timestamp,
                   seen_id |-> last_seen_message_id,
                   seen_timestamp |-> last_seen_timestamp,
                   result |-> dup]

-----------------------------------------------------------------------------
(* The watcher's handler: watch_mail._handle_event *)

\* what the environment does to one _handle_event call: the sinks whose
\* operation fails (the print, Popen, or the write of a file), and how the
\* server answers the inbox fetch
FetchResponses == {"connect_error", "timeout", "http_error", "not_json",
                   "not_a_dict", "no_messages", "empty", "message"}
Envs == [failing : SUBSET (Sinks \ {"auto_fetch"}), fetch : FetchResponses]
NoFailure == [failing |-> {}, fetch |-> "message"]

\* faulty variant: raise_for_status and resp.json() are outside the try
auto_fetch_unchecked(resp) ==
    CASE resp \in {"connect_error", "timeout"} ->
            [printed |-> "Auto-fetch error", raised |-> FALSE]
      [] resp \in {"http_error", "not_json", "not_a_dict"} ->
            [printed |-> "", raised |-> TRUE]
      [] resp = "no_messages" ->
            [printed |-> "(could not parse inbox response)", raised |-> FALSE]
      [] resp = "empty" -> [printed |-> "(inbox empty)", raised |-> FALSE]
      [] OTHER -> [printed |-> "Latest", raised |-> FALSE]

\* _auto_fetch: what it prints, and whether it raises; the whole body is in
\* one try / except Exception
auto_fetch(resp) ==
    CASE resp \in {"connect_error", "timeout", "http_error", "not_json", "not_a_dict"} ->
            [printed |-> "Auto-fetch error", raised |-> FALSE]
      [] resp = "no_messages" ->
            [printed |-> "(could not parse inbox response)", raised |-> FALSE]
      [] resp = "empty" -> [printed |-> "(inbox empty)", raised |-> FALSE]
      [] OTHER -> [printed |-> "Latest", raised |-> FALSE]

\* whether the call of sink s raises: _dev_notify has no try, _auto_fetch
\* raises what auto_fetch lets through, the other three catch Exception
SinkRaises(s, env) ==
    CASE s = "dev_notify" -> "dev_notify" \in env.failing
      [] s = "auto_fetch" -> auto_fetch(env.fetch).raised
      [] OTHER -> FALSE

\* the enabled sinks in the order _handle_event runs them
EnabledOrder == SelectSeq(SinkOrder, LAMBDA s : s \in enabled)

\* the sinks one call past the guard invokes: the enabled ones in order, up
\* to the first that raises
Invoked(env) ==
    LET stop == {i \in 1 .. Len(EnabledOrder) : SinkRaises(EnabledOrder[i], env)}
    IN  IF stop = {} THEN EnabledOrder
        ELSE SubSeq(EnabledOrder, 1, CHOOSE i \in stop : \A j \in stop : i <= j)

\* whether one call past the guard raises
Raises(env) == \E i \in 1 .. Len(EnabledOrder) : SinkRaises(EnabledOrder[i], env)

\* the invocations one novel event causes; with no sink enabled the raw
\* signal is printed
Dispatch(message_id, env) ==
    IF enabled = {}
    THEN << <<"raw_signal", message_id>> >>
    ELSE [i \in 1 .. Len(Invoked(env)) |-> <<Invoked(env)[i], message_id>>]

\* faulty variant: a sentinel that is there is left as it is
write_sentinel_once(data) ==
    IF sentinel.present THEN sentinel
    ELSE [present |-> TRUE, id |-> data.message_id, headers |-> data.headers,
          timestamp |-> data.timestamp]

\* the sentinel file after _write_sentinel: the five fields it dumps
write_sentinel(data) ==
    [present |-> TRUE, id |-> data.message_id, headers |-> data.headers,
     timestamp |-> data.timestamp]

\* a line of the buffer file.  The header is six lines, the first of which
\* holds the title; a row holds the event's fields.
HeaderLines ==
    << [k |-> "title", id |-> 0, ts |-> "", h |-> ""],
       [k |-> "blank", id |-> 0, ts |-> "", h |-> ""],
       [k |-> "note", id |-> 0, ts |-> "", h |-> ""],
       [k |-> "blank", id |-> 0, ts |-> "", h |-> ""],
       [k |-> "columns", id |-> 0, ts |-> "", h |-> ""],
       [k |-> "rule", id |-> 0, ts |-> "", h |-> ""] >>
RowLine(data) ==
    [k |-> "row", id |-> data.message_id, ts |-> data.timestamp, h |-> data.headers]
\* str.splitlines(): the lines without their newline.  A string is a line's
\* text and whether a newline ends it.
SplitLines(lines) == [i \in 1 .. Len(lines) |-> [text |-> lines[i], nl |-> FALSE]]

\* _update_buffer_file: the file after the call
update_buffer_file(buf, data) ==
    LET row == [text |-> RowLine(data), nl |-> TRUE]
        fresh_file == [present |-> TRUE, lines |-> HeaderLines \o <<row.text>>]
        lines == SplitLines(buf.lines)
    IN  IF ~buf.present THEN fresh_file
        ELSE IF lines = << >> \/ lines[1].text.k # "title" THEN fresh_file
        ELSE IF row \notin Range(lines)
             THEN [present |-> TRUE, lines |-> buf.lines \o <<row.text>>]
             ELSE buf

\* the part of _handle_event after the guard, for a novel event
RunSinks(data, env) ==
    /\ sink_calls' = sink_calls \o Dispatch(data.message_id, env)
    /\ outcome' = [raised |-> enabled # {} /\ Raises(env),
                   invoked |-> IF enabled = {} THEN << >> ELSE Invoked(env),
                   failing |-> env.failing,
                   fetch |-> IF "auto_fetch" \in Range(Invoked(env))
                             THEN auto_fetch(env.fetch).printed ELSE ""]
    /\ sentinel' = IF "sentinel_file" \in Range(Invoked(env))
                      /\ "sentinel_file" \notin env.failing
                   THEN write_sentinel(data) ELSE sentinel
    /\ buffer' = IF "buffer_file" \in Range(Invoked(env))
                    /\ "buffer_file" \notin env.failing
                 THEN update_buffer_file(buffer, data) ELSE buffer
    /\ failed' = failed \cup
          {s \in Range(Invoked(env)) :
              \/ s \in env.failing
              \/ s = "auto_fetch" /\ env.fetch # "message"}

\* faulty variant: the sinks run before the verdict is looked at
handle_event_unguarded(data, env) ==
    /\ is_duplicate(data.message_id, data.timestamp)
    /\ history' = Append(history, data.message_id)
    /\ RunSinks(data, env)

\* _handle_event(data, ...): the duplicate check, then the sinks
handle_event(data, env) ==
    /\ is_duplicate(data.message_id, data.timestamp)
    /\ history' = Append(history, data.message_id)
    /\ IF DupVerdict(data.message_id, data.timestamp)
       THEN UNCHANGED sinkvars
       ELSE RunSinks(data, env)

\* whether this call of _handle_event raises
HandlerRaises(data, env) ==
    /\ ~DupVerdict(data.message_id, data.timestamp)
    /\ enabled # {}
    /\ Raises(env)

-----------------------------------------------------------------------------
(* main, and the streaming adapter: watch_mail._watch_sse *)

\* faulty variant: the delay doubles
Doubles(d) == <<2 * d[1], d[2]>>
\* retry_delay * 1.5
TimesOneAndHalf(d) == <<3 * d[1], 2 * d[2]>>
\* faulty variant: no ceiling
NoCeiling(d) == d
\* min(30.0, d)
Min30(d) == IF d[1] > 30 * d[2] THEN <<30, 1>> ELSE d

\* faulty variant: a method that is not "sse" starts the polling adapter
main_defaults_to_file(m, cfg) ==
    /\ wpc = "init"
    /\ enabled' = cfg
    /\ method' = m
    /\ wpc' = IF m = "sse" THEN "connect" ELSE "poll_init"
    /\ exit_code' = exit_code
    /\ retry_delay' = <<1, 1>>
    /\ UNCHANGED <<bvars, macrovars, pollvars, dvars, history, sinkvars, fails, last_line, payload>>

\* main: the options are taken, and the adapter named by --method starts
main(m, cfg) ==
    /\ wpc = "init"
    /\ enabled' = cfg
    /\ method' = m
    /\ wpc' = CASE m = "file" -> "poll_init"
                 [] m = "sse" -> "connect"
                 [] OTHER -> "exit"
    /\ exit_code' = IF m \in {"file", "sse"} THEN exit_code ELSE 1
    /\ retry_delay' = <<1, 1>>
    /\ UNCHANGED <<bvars, macrovars, pollvars, dvars, history, sinkvars, fails, last_line, payload>>

\* the request is answered with a status other than 200: the adapter sleeps
\* retry_delay inside the response block
ConnectRefused ==
    /\ wpc = "connect"
    /\ wpc' = "refused"
    /\ UNCHANGED <<bvars, macrovars, pollvars, dvars, history, mainvars, sinkvars, ssevars>>

\* the sleep after a refusal is over: `continue`
RefusedRetry ==
    /\ wpc = "refused"
    /\ wpc' = "connect"
    /\ UNCHANGED <<bvars, macrovars, pollvars, dvars, history, mainvars, sinkvars, ssevars>>

\* the request is answered with 200
ConnectOk ==
    /\ wpc = "connect"
    /\ retry_delay' = <<1, 1>>
    /\ fails' = 0
    /\ last_line' = "none"
    /\ payload' = payload
    /\ wpc' = "streaming"
    /\ UNCHANGED <<bvars, macrovars, pollvars, dvars, history, mainvars, sinkvars>>

\* the request raises (ConnectError, a timeout, ...): one of the except clauses
ConnectFail ==
    /\ wpc = "connect"
    /\ fails' = fails + 1
    /\ wpc' = "backoff"
    /\ UNCHANGED <<bvars, macrovars, pollvars, dvars, history, mainvars, sinkvars, retry_delay, last_line, payload>>

\* an empty line, or one that does not start with "data: "
StreamSkip ==
    /\ wpc = "streaming"
    /\ last_line' = "skip"
    /\ payload' = payload
    /\ UNCHANGED <<bvars, macrovars, pollvars, dvars, history, mainvars, sinkvars, wpc, retry_delay, fails>>

\* faulty variant: the JSON error leaves the line loop
StreamInvalidJsonEscapes ==
    /\ wpc = "streaming"
    /\ last_line' = "invalid"
    /\ payload' = [kind |-> "not_json", data |-> NoEnvelope]
    /\ fails' = fails + 1
    /\ wpc' = "backoff"
    /\ UNCHANGED <<bvars, macrovars, pollvars, dvars, history, mainvars, sinkvars, retry_delay>>

\* a data line whose payload is not JSON: JSONDecodeError is caught in the loop
StreamInvalidJson ==
    /\ wpc = "streaming"
    /\ last_line' = "invalid"
    /\ payload' = [kind |-> "not_json", data |-> NoEnvelope]
    /\ UNCHANGED <<bvars, macrovars, pollvars, dvars, history, mainvars, sinkvars, wpc, retry_delay, fails>>

\* a data line carrying an envelope; what _handle_event raises is taken by
\* the outer `except Exception`
StreamData(data, env) ==
    /\ wpc = "streaming"
    /\ handle_event(data, env)
    /\ last_line' = "data"
    /\ payload' = [kind |-> "envelope", data |-> data]
    /\ IF HandlerRaises(data, env)
       THEN fails' = fails + 1 /\ wpc' = "backoff"
       ELSE UNCHANGED <<fails, wpc>>
    /\ UNCHANGED <<bvars, macrovars, pollvars, mainvars, retry_delay>>

\* a data line whose JSON is not an object: _handle_event raises at data.get,
\* before the duplicate check, and the outer `except Exception` takes it
StreamHandlerError ==
    /\ wpc = "streaming"
    /\ last_line' = "raised"
    /\ payload' = [kind |-> "not_object", data |-> NoEnvelope]
    /\ fails' = fails + 1
    /\ wpc' = "backoff"
    /\ UNCHANGED <<bvars, macrovars, pollvars, dvars, history, mainvars, sinkvars, retry_delay>>

\* faulty variant: the end of the stream ends the adapter
StreamEndStops ==
    /\ wpc = "streaming"
    /\ fails' = fails + 1
    /\ wpc' = "exit"
    /\ UNCHANGED <<bvars, macrovars, pollvars, dvars, history, mainvars, sinkvars, retry_delay, last_line, payload>>

\* the server ends the stream and aiter_lines is exhausted
StreamEnd ==
    /\ wpc = "streaming"
    /\ fails' = fails + 1
    /\ wpc' = "backoff"
    /\ UNCHANGED <<bvars, macrovars, pollvars, dvars, history, mainvars, sinkvars, retry_delay, last_line, payload>>

\* the stream breaks (RemoteProtocolError, or any other exception)
StreamError ==
    /\ wpc = "streaming"
    /\ fails' = fails + 1
    /\ wpc' = "backoff"
    /\ UNCHANGED <<bvars, macrovars, pollvars, dvars, history, mainvars, sinkvars, retry_delay, last_line, payload>>

\* the sleep of retry_delay after the try block is over; the delay grows
BackoffRetry ==
    /\ wpc = "backoff"
    /\ retry_delay' = Min30(TimesOneAndHalf(retry_delay))
    /\ wpc' = "connect"
    /\ UNCHANGED <<bvars, macrovars, pollvars, dvars, history, mainvars, sinkvars, fails, last_line, payload>>

-----------------------------------------------------------------------------
(* The signal file and the polling adapter: watch_mail._watch_file_polling *)

\* the server (another process) writes the signal file; its mtime goes up
WriteSignal(content) ==
    /\ file_exists' = TRUE
    /\ file_mtime' = file_mtime + 1
    /\ file_content' = content
    /\ fresh' = fresh + 1
    /\ tick' = [tick EXCEPT !.quiet = FALSE]
    /\ UNCHANGED <<bvars, macrovars, dvars, history, mainvars, sinkvars, wpc, ssevars, last_mtime>>

\* the signal file is removed
DeleteSignal ==
    /\ file_exists
    /\ file_exists' = FALSE
    /\ tick' = [tick EXCEPT !.quiet = FALSE]
    /\ UNCHANGED <<bvars, macrovars, dvars, history, mainvars, sinkvars, wpc, ssevars,
                   file_mtime, file_content, last_mtime, fresh>>

\* last_mtime = 0.0; if signal_path.exists():
PollInitExists ==
    /\ wpc = "poll_init"
    /\ last_mtime' = 0
    /\ wpc' = IF file_exists THEN "poll_init_stat" ELSE "poll_exists"
    /\ UNCHANGED <<bvars, macrovars, dvars, history, mainvars, sinkvars, ssevars, filevars, fresh, tick>>

\* faulty variant: the file found at the start leaves last_mtime at 0.0
PollInitStatNoBaseline ==
    /\ wpc = "poll_init_stat"
    /\ IF file_exists
       THEN last_mtime' = 0 /\ fresh' = 0 /\ wpc' = "poll_exists"
       ELSE wpc' = "crashed" /\ UNCHANGED <<last_mtime, fresh>>
    /\ UNCHANGED <<bvars, macrovars, dvars, history, mainvars, sinkvars, ssevars, filevars, tick>>

\* last_mtime = signal_path.stat().st_mtime; stat raises if the file is gone
PollInitStat ==
    /\ wpc = "poll_init_stat"
    /\ IF file_exists
       THEN last_mtime' = file_mtime /\ fresh' = 0 /\ wpc' = "poll_exists"
       ELSE wpc' = "crashed" /\ UNCHANGED <<last_mtime, fresh>>
    /\ UNCHANGED <<bvars, macrovars, dvars, history, mainvars, sinkvars, ssevars, filevars, tick>>

\* a tick begins: if signal_path.exists():
PollExists ==
    /\ wpc = "poll_exists"
    /\ tick' = [handed |-> 0, seen |-> 0, quiet |-> TRUE]
    /\ wpc' = IF file_exists THEN "poll_stat" ELSE "poll_sleep"
    /\ UNCHANGED <<bvars, macrovars, dvars, history, mainvars, sinkvars, ssevars, filevars, last_mtime, fresh>>

\* faulty variant: an mtime equal to last_mtime counts as a change
PollStatNotOlder ==
    /\ wpc = "poll_stat"
    /\ IF ~file_exists
       THEN wpc' = "crashed" /\ UNCHANGED <<last_mtime, fresh, tick>>
       ELSE /\ fresh' = 0
            /\ tick' = [tick EXCEPT !.seen = fresh]
            /\ IF file_mtime >= last_mtime
               THEN last_mtime' = file_mtime /\ wpc' = "poll_read"
               ELSE wpc' = "poll_sleep" /\ UNCHANGED last_mtime
    /\ UNCHANGED <<bvars, macrovars, dvars, history, mainvars, sinkvars, ssevars, filevars>>

\* faulty variant: last_mtime is left for the read to advance, and the read
\* never does
PollStatKeepsMtime ==
    /\ wpc = "poll_stat"
    /\ IF ~file_exists
       THEN wpc' = "crashed" /\ UNCHANGED <<last_mtime, fresh, tick>>
       ELSE /\ fresh' = 0
            /\ tick' = [tick EXCEPT !.seen = fresh]
            /\ wpc' = IF file_mtime > last_mtime THEN "poll_read" ELSE "poll_sleep"
            /\ UNCHANGED last_mtime
    /\ UNCHANGED <<bvars, macrovars, dvars, history, mainvars, sinkvars, ssevars, filevars>>

\* current_mtime = signal_path.stat().st_mtime; if current_mtime > last_mtime:
\* last_mtime = current_mtime.  stat raises if the file is gone since exists()
PollStat ==
    /\ wpc = "poll_stat"
    /\ IF ~file_exists
       THEN wpc' = "crashed" /\ UNCHANGED <<last_mtime, fresh, tick>>
       ELSE /\ fresh' = 0
            /\ tick' = [tick EXCEPT !.seen = fresh]
            /\ IF file_mtime > last_mtime
               THEN last_mtime' = file_mtime /\ wpc' = "poll_read"
               ELSE wpc' = "poll_sleep" /\ UNCHANGED last_mtime
    /\ UNCHANGED <<bvars, macrovars, dvars, history, mainvars, sinkvars, ssevars, filevars>>

\* faulty variant: only a missing file is caught; text that is not JSON ends
\* the loop
PollReadUncaught(env) ==
    /\ wpc = "poll_read"
    /\ IF file_exists /\ file_content.kind = "envelope"
       THEN /\ handle_event(file_content.data, env)
            /\ tick' = [tick EXCEPT !.handed = @ + 1]
       ELSE UNCHANGED <<dvars, history, sinkvars, tick>>
    /\ wpc' = IF file_exists /\ file_content.kind = "not_json"
              THEN "crashed" ELSE "poll_sleep"
    /\ payload' = IF file_exists THEN file_content ELSE payload
    /\ UNCHANGED <<bvars, macrovars, mainvars, retry_delay, fails, last_line, filevars, last_mtime, fresh>>

\* faulty variant: the envelope read from the file loses its timestamp
PollReadDropsTimestamp(env) ==
    /\ wpc = "poll_read"
    /\ IF file_exists /\ file_content.kind = "envelope"
       THEN /\ handle_event([file_content.data EXCEPT !.timestamp = ""], env)
            /\ tick' = [tick EXCEPT !.handed = @ + 1]
       ELSE UNCHANGED <<dvars, history, sinkvars, tick>>
    /\ payload' = IF file_exists THEN file_content ELSE payload
    /\ wpc' = "poll_sleep"
    /\ UNCHANGED <<bvars, macrovars, mainvars, retry_delay, fails, last_line, filevars, last_mtime, fresh>>

\* the try block: read_text, json.loads, await _handle_event; whatever one of
\* them raises is printed
PollRead(env) ==
    /\ wpc = "poll_read"
    /\ IF file_exists /\ file_content.kind = "envelope"
       THEN /\ handle_event(file_content.data, env)
            /\ tick' = [tick EXCEPT !.handed = @ + 1]
       ELSE UNCHANGED <<dvars, history, sinkvars, tick>>
    /\ payload' = IF file_exists THEN file_content ELSE payload
    /\ wpc' = "poll_sleep"
    /\ UNCHANGED <<bvars, macrovars, mainvars, retry_delay, fails, last_line, filevars, last_mtime, fresh>>

\* await asyncio.sleep(interval) is over
PollSleep ==
    /\ wpc = "poll_sleep"
    /\ wpc' = "poll_exists"
    /\ UNCHANGED <<bvars, macrovars, dvars, history, mainvars, sinkvars, ssevars, pollvars>>

-----------------------------------------------------------------------------
(* The CI gate: macros/ci_gate.py *)

RECURSIVE Flatten(_)
Flatten(ss) == IF ss = << >> THEN << >> ELSE Head(ss) \o Flatten(Tail(ss))

\* checks_map = {run["name"]: run for run in check_runs}: of the runs of one
\* name the last stays
checks_map(check_runs) ==
    [n \in {check_runs[i].name : i \in DOMAIN check_runs} |->
        check_runs[CHOOSE i \in DOMAIN check_runs :
            /\ check_runs[i].name = n
            /\ \A j \in DOMAIN check_runs : check_runs[j].name = n => j <= i]]

\* the keys of checks_map in the order items() gives them: first insertion
MapNames(check_runs) ==
    LET idx == [i \in DOMAIN check_runs |-> i]
        first == SelectSeq(idx, LAMBDA i :
                    \A j \in 1 .. i - 1 : check_runs[j].name # check_runs[i].name)
    IN  [k \in DOMAIN first |-> check_runs[first[k]].name]

\* the first loop: what one required check adds to required_results and to failed
RequiredResult(map, req_name) ==
    IF req_name \notin DOMAIN map THEN << >>
    ELSE << [name |-> req_name, status |-> map[req_name].status,
             conclusion |-> map[req_name].conclusion] >>
\* faulty variant: a required check without a run is not a failure
RequiredFailedSkipsMissing(map, req_name, require_conclusion) ==
    IF req_name \notin DOMAIN map THEN << >>
    ELSE IF map[req_name].status # "completed"
            \/ map[req_name].conclusion # require_conclusion
    THEN << [name |-> req_name, status |-> map[req_name].status,
             conclusion |-> map[req_name].conclusion, reason |-> "unsuccessful"] >>
    ELSE << >>
RequiredFailed(map, req_name, require_conclusion) ==
    IF req_name \notin DOMAIN map
    THEN << [name |-> req_name, status |-> "(absent)", conclusion |-> "(absent)",
             reason |-> "missing"] >>
    ELSE IF map[req_name].status # "completed"
            \/ map[req_name].conclusion # require_conclusion
    THEN << [name |-> req_name, status |-> map[req_name].status,
             conclusion |-> map[req_name].conclusion, reason |-> "unsuccessful"] >>
    ELSE << >>

\* the second loop: what one other check adds to others and to failed
OtherResult(map, name, require_checks) ==
    IF name \in Range(require_checks) THEN << >>
    ELSE << [name |-> name, status |-> map[name].status,
             conclusion |-> map[name].conclusion] >>
OtherFailed(map, name, require_checks, allow_skipped) ==
    LET run == map[name]
        entry(reason) == << [name |-> name, status |-> run.status,
                             conclusion |-> run.conclusion, reason |-> reason] >>
    IN  IF name \in Range(require_checks) THEN << >>
        ELSE IF run.status = "completed"
        THEN IF run.conclusion = "failure" THEN entry("failure")
             ELSE IF run.conclusion = "skipped" /\ name \notin allow_skipped
             THEN entry("skipped_not_allowed")
             ELSE << >>
        ELSE entry("not_completed")

\* the html_url of every run looked at that has one
GateUrls(map) == {map[n].html_url : n \in DOMAIN map} \ {""}

\* faulty variant: a sha that is given wins over the PR's head
ci_gate_prefers_sha(pr_number, sha, require_checks, allow_skipped, require_conclusion, github_client) ==
    LET raise(e, looked) == [raised |-> e, lookups |-> looked, value |-> NoGateResult]
        resolved_sha == IF sha # << >> THEN sha[1] ELSE github_client.head_sha
        map == checks_map(github_client.check_runs)
        names == MapNames(github_client.check_runs)
        failures ==
            Flatten([i \in DOMAIN require_checks |->
                       RequiredFailed(map, require_checks[i], require_conclusion)])
            \o Flatten([i \in DOMAIN names |->
                          OtherFailed(map, names[i], require_checks, allow_skipped)])
        result(url) ==
            [ok |-> Len(failures) = 0,
             sha |-> resolved_sha,
             required |-> Flatten([i \in DOMAIN require_checks |->
                                     RequiredResult(map, require_checks[i])]),
             others |-> Flatten([i \in DOMAIN names |->
                                   OtherResult(map, names[i], require_checks)]),
             failed |-> failures,
             url |-> url]
    IN  IF pr_number # << >> /\ github_client.fails = "get_pr_head_sha"
        THEN {raise("CalledProcessError", << >>)}
        ELSE IF pr_number = << >> /\ sha = << >>
        THEN {raise("ValueError", << >>)}
        ELSE IF github_client.fails = "get_check_runs"
        THEN {raise("CalledProcessError", <<resolved_sha>>)}
        ELSE {[raised |-> "", lookups |-> <<resolved_sha>>, value |-> result(url)] :
                 url \in IF GateUrls(map) = {} THEN {"None"} ELSE GateUrls(map)}

\* ci_gate(owner, repo, pr_number, sha, require_checks, allow_skipped,
\* require_conclusion, github_client): the outcomes of the call.  An optional
\* argument is a sequence of at most one value.  `raised` names the exception
\* that leaves the call, `lookups` the SHAs get_check_runs was called with.
\* urls is a set, so list(urls)[0] is any of its members.
ci_gate(pr_number, sha, require_checks, allow_skipped, require_conclusion, github_client) ==
    LET raise(e, looked) == [raised |-> e, lookups |-> looked, value |-> NoGateResult]
        resolved_sha == IF pr_number # << >> THEN github_client.head_sha ELSE sha[1]
        map == checks_map(github_client.check_runs)
        names == MapNames(github_client.check_runs)
        failures ==
            Flatten([i \in DOMAIN require_checks |->
                       RequiredFailed(map, require_checks[i], require_conclusion)])
            \o Flatten([i \in DOMAIN names |->
                          OtherFailed(map, names[i], require_checks, allow_skipped)])
        result(url) ==
            [ok |-> Len(failures) = 0,
             sha |-> resolved_sha,
             required |-> Flatten([i \in DOMAIN require_checks |->
                                     RequiredResult(map, require_checks[i])]),
             others |-> Flatten([i \in DOMAIN names |->
                                   OtherResult(map, names[i], require_checks)]),
             failed |-> failures,
             url |-> url]
    IN  IF pr_number # << >> /\ github_client.fails = "get_pr_head_sha"
        THEN {raise("CalledProcessError", << >>)}
        ELSE IF pr_number = << >> /\ sha = << >>
        THEN {raise("ValueError", << >>)}
        ELSE IF github_client.fails = "get_check_runs"
        THEN {raise("CalledProcessError", <<resolved_sha>>)}
        ELSE {[raised |-> "", lookups |-> <<resolved_sha>>, value |-> result(url)] :
                 url \in IF GateUrls(map) = {} THEN {"None"} ELSE GateUrls(map)}

\* the defaults of ci_gate's parameters
DefaultRequireChecks == <<"Fast Tests (ubuntu)">>
DefaultAllowSkipped == {"Fast Tests (macos)", "Full Tests"}
DefaultRequireConclusion == "success"

\* ci_gate called on its own: the arguments and the client are recorded, and
\* what the call returns or raises
CiGate(pr_number, sha, require_checks, allow_skipped, require_conclusion, github_client) ==
    /\ ~gate_args.called
    /\ gate_args' = [called |-> TRUE, pr_number |-> pr_number, sha |-> sha,
                     require_checks |-> require_checks,
                     allow_skipped |-> allow_skipped,
                     require_conclusion |-> require_conclusion,
                     head_sha |-> github_client.head_sha,
                     check_runs |-> github_client.check_runs,
                     fails |-> github_client.fails]
    /\ gate_return' \in ci_gate(pr_number, sha, require_checks, allow_skipped,
                                require_conclusion, github_client)
    /\ UNCHANGED <<bvars, dvars, history, wvars, rpc, gate_result, sent_messages,
                   report, call_args>>

-----------------------------------------------------------------------------
(* The ready report: macros/send_ready_report.py *)

\* a string the macro formats is the sequence of its lines; a line is what it
\* is for (k) and the value formatted into it (v)
format_check_line(check) ==
    [k |-> "check", v |-> check.name,
     icon |-> IF check.conclusion = "success" THEN "check_mark" ELSE "cross_mark",
     status |-> check.status, conclusion |-> check.conclusion]

pr_url(pr_number) == [k |-> "pr", v |-> pr_number]

\* body_md, lines 113-132
body_md(gate, pr_number, local_commands, notes) ==
    LET checks_summary ==
            [i \in DOMAIN gate.required |-> format_check_line(gate.required[i])]
        cmds_str == [i \in DOMAIN local_commands |->
                        [k |-> "command", v |-> local_commands[i]]]
        urls == IF "urls" \in DOMAIN gate THEN gate.urls ELSE << >>
        run_links == [i \in DOMAIN urls |-> [k |-> "run", v |-> urls[i]]]
        notes_block == IF notes # ""
                       THEN <<[k |-> "notes_heading", v |-> ""],
                              [k |-> "notes", v |-> notes]>>
                       ELSE << >>
        runs_block == IF run_links # << >>
                      THEN <<[k |-> "runs_heading", v |-> ""]>> \o run_links
                      ELSE << >>
    IN  <<[k |-> "title", v |-> ""], pr_url(pr_number),
          [k |-> "sha", v |-> gate.sha], [k |-> "ci_heading", v |-> ""]>>
        \o checks_summary \o runs_block
        \o <<[k |-> "local_heading", v |-> ""]>> \o cmds_str
        \o notes_block \o <<[k |-> "footer", v |-> ""]>>

\* the ValueError's text, line 107
gate_failed_message(gate) ==
    <<[k |-> "text", v |-> "CI gate failed for SHA "], [k |-> "sha", v |-> gate.sha],
      [k |-> "text", v |-> ". Blocked checks: "]>>
    \o [i \in DOMAIN gate.failed |-> [k |-> "name", v |-> gate.failed[i].name]]

\* am_client.send_message(...) is called: the call is recorded; it returns the
\* server's answer or raises (curl fails, or its output is not JSON)
send_message(subject, body, am) ==
    /\ sent_messages' = Append(sent_messages, [subject |-> subject, body_md |-> body])
    /\ report' = IF am = "ok"
                 THEN [raised |-> "", message |-> << >>, message_sent |-> TRUE,
                       am_response |-> "deliveries"]
                 ELSE [raised |-> "CalledProcessError", message |-> << >>,
                       message_sent |-> FALSE, am_response |-> ""]
    /\ rpc' = IF am = "ok" THEN "returned" ELSE "raised"

\* faulty variant: the message is sent whatever the gate says
send_ready_report_ungated(local_commands, notes, github_client, am) ==
    /\ rpc = "idle"
    /\ call_args' = [local_commands |-> local_commands, notes |-> notes]
    /\ \E g \in ci_gate(<<PrNumber>>, << >>, DefaultRequireChecks, DefaultAllowSkipped,
                         DefaultRequireConclusion, github_client) :
          IF g.raised # ""
          THEN /\ rpc' = "raised"
               /\ report' = [NoReport EXCEPT !.raised = g.raised]
               /\ UNCHANGED <<gate_result, sent_messages>>
          ELSE /\ gate_result' = g.value
               /\ send_message([pr_number |-> PrNumber, sha7 |-> g.value.sha.head7],
                               body_md(g.value, PrNumber, local_commands, notes), am)
    /\ UNCHANGED <<bvars, dvars, history, wvars, gate_args, gate_return>>

\* send_ready_report(project_key, sender, recipients, owner, repo, pr_number,
\* local_commands, notes, am_client): the gate, then the report
send_ready_report(local_commands, notes, github_client, am) ==
    /\ rpc = "idle"
    /\ call_args' = [local_commands |-> local_commands, notes |-> notes]
    /\ \E g \in ci_gate(<<PrNumber>>, << >>, DefaultRequireChecks, DefaultAllowSkipped,
                         DefaultRequireConclusion, github_client) :
          IF g.raised # ""
          THEN /\ rpc' = "raised"
               /\ report' = [NoReport EXCEPT !.raised = g.raised]
               /\ UNCHANGED <<gate_result, sent_messages>>
          ELSE /\ gate_result' = g.value
               /\ IF ~g.value.ok
                  THEN /\ rpc' = "raised"
                       /\ report' = [NoReport EXCEPT !.raised = "ValueError",
                                         !.message = gate_failed_message(g.value)]
                       /\ UNCHANGED sent_messages
                  ELSE send_message([pr_number |-> PrNumber, sha7 |-> g.value.sha.head7],
                                    body_md(g.value, PrNumber, local_commands, notes), am)
    /\ UNCHANGED <<bvars, dvars, history, wvars, gate_args, gate_return>>

-----------------------------------------------------------------------------
(* Specifications *)

\* the steps of one subscribe call that no specification bounds
SubscriberStep(s) ==
    \/ FirstPull(s)
    \/ CloseUnstarted(s)
    \/ SubEnsureKey(s)
    \/ SubAppend(s)
    \/ Resume(s)
    \/ CancelWaiting(s)
    \/ CloseYielded(s)
    \/ FinAcquire(s)
    \/ FinFilter(s)
    \/ FinDel(s)

TotalSent == sent[<<"proj", "a1">>] + sent[<<"proj", "a2">>]

\* every interleaving of two subscribe calls and a few broadcasts
Next ==
    \/ \E s \in Subs : SubscriberStep(s)
    \/ \E s \in Subs, k \in Keys : SubscribeCall(s, k)
    \/ \E s \in Subs : SubAcquire(s)
    \/ \E s \in Subs : Get(s)
    \/ \E k \in Keys : TotalSent < MaxBroadcasts /\ BroadcastCall(k)
    \/ BroadcastAcquire
    \/ BroadcastDeliver

Spec == Init /\ [][Next]_vars

\* a long burst of broadcasts to one key, over subscribers that register
\* early in the burst and pull little: the queues fill up and overflow
NextOverflow ==
    \/ \E s \in Subs : SubscriberStep(s)
    \/ \E s \in Subs, k \in Keys : SubscribeCall(s, k)
    \/ \E s \in Subs : TotalSent <= MaxLateJoin /\ SubAcquire(s)
    \/ \E s \in Subs : Len(received[s]) < MaxPulls /\ Get(s)
    \/ TotalSent < MaxBurst /\ BroadcastCall(BurstKey)
    \/ BroadcastAcquire
    \/ BroadcastDeliver

SpecOverflow == Init /\ [][NextOverflow]_vars

\* the dedup guard fed any sequence of events
NextDedup ==
    \E message_id \in MessageIds, timestamp \in Timestamps :
        /\ Len(history) < MaxEvents
        /\ is_duplicate(message_id, timestamp)
        /\ history' = Append(history, message_id)
        /\ UNCHANGED <<bvars, macrovars, wvars>>

SpecDedup == Init /\ [][NextDedup]_vars

\* what the environment does to a call in the runs explored: nothing, or one
\* failure
SinkEnvs ==
    {NoFailure}
    \cup {[failing |-> {s}, fetch |-> "message"] : s \in Sinks \ {"auto_fetch"}}
    \cup {[failing |-> {}, fetch |-> r] : r \in FetchResponses}
HandlerEnvs == {NoFailure, [failing |-> {"dev_notify"}, fetch |-> "message"]}
\* the envelopes the handler is handed in the runs explored
HandlerEnvelopes == {e \in WireEnvelopes : e.timestamp # "t2"}
SinkEnvelopes == {e \in Envelopes : e.message_id \in {1, 2} /\ e.timestamp = "t1"}
AdapterEnvs ==
    {NoFailure, [failing |-> {"dev_notify"}, fetch |-> "message"],
     [failing |-> {"sentinel_file"}, fetch |-> "http_error"]}

\* _handle_event alone: main takes the options, and the adapter it starts
\* hands envelopes to the handler.
NextHandler ==
    \/ \E m \in Methods, cfg \in SinkConfigs : main(m, cfg)
    \/ \E data \in HandlerEnvelopes, env \in HandlerEnvs :
          /\ wpc \notin {"init", "exit"}
          /\ Len(history) < MaxHandled
          /\ handle_event(data, env)
          /\ payload' = [kind |-> "envelope", data |-> data]
          /\ UNCHANGED <<bvars, macrovars, pollvars, mainvars, wpc, retry_delay, fails, last_line>>
SpecHandler == Init /\ [][NextHandler]_vars

\* _handle_event with every failure of a sink the environment can cause.
NextSinks ==
    \/ \E m \in {"file", "sse"}, cfg \in SinkConfigs : main(m, cfg)
    \/ \E data \in SinkEnvelopes, env \in SinkEnvs :
          /\ wpc \notin {"init", "exit"}
          /\ Len(history) < MaxSinkEvents
          /\ handle_event(data, env)
          /\ payload' = [kind |-> "envelope", data |-> data]
          /\ UNCHANGED <<bvars, macrovars, pollvars, mainvars, wpc, retry_delay, fails, last_line>>
SpecSinks == Init /\ [][NextSinks]_vars

\* _update_buffer_file called on its own, on whatever file is at the path: the
\* file the sink left (it outlives the watcher and its dedup state), no file,
\* an empty file, or a file of something else.
MaxBufferCalls == 3
ForeignLine == [k |-> "other", id |-> 0, ts |-> "", h |-> ""]
ForeignFiles ==
    {[present |-> TRUE, lines |-> << >>], [present |-> TRUE, lines |-> <<ForeignLine>>]}
UpdateBuffer(data) ==
    /\ buffer' = update_buffer_file(buffer, data)
    /\ sink_calls' = Append(sink_calls, <<"buffer_file", data.message_id>>)
    /\ payload' = [kind |-> "envelope", data |-> data]
    /\ UNCHANGED <<bvars, macrovars, dvars, history, mainvars, outcome, sentinel, failed,
                   wpc, retry_delay, fails, last_line, pollvars>>
RemoveBuffer ==
    /\ buffer.present
    /\ buffer' = NoBuffer
    /\ UNCHANGED <<bvars, macrovars, dvars, history, mainvars, sink_calls, outcome, sentinel,
                   failed, wpc, ssevars, pollvars>>
ReplaceBuffer(file) ==
    /\ buffer' = file
    /\ UNCHANGED <<bvars, macrovars, dvars, history, mainvars, sink_calls, outcome, sentinel,
                   failed, wpc, ssevars, pollvars>>
NextBuffer ==
    \/ \E data \in SinkEnvelopes :
          Len(sink_calls) < MaxBufferCalls /\ UpdateBuffer(data)
    \/ RemoveBuffer
    \/ \E file \in ForeignFiles : ReplaceBuffer(file)
SpecBuffer == Init /\ [][NextBuffer]_vars

\* One call of ci_gate.  The calls that show how the verdict is made: a given
\* sha, one or two required checks, the default allow_skipped or the tests',
\* any check runs that have a URL.  The calls that show how the SHA is resolved: pr_number
\* and sha given or not, a client that answers or fails.
TestAllowSkipped == {"Fast Tests (macos)"}
VerdictCalls ==
    [pr_number : {<< >>}, sha : {<<s>> : s \in {t \in Shas : t.rest = ""}},
     require_checks : {DefaultRequireChecks, <<"Fast Tests (ubuntu)", "Lint">>},
     allow_skipped : {DefaultAllowSkipped, TestAllowSkipped},
     github_client : {c \in GithubClients :
                         /\ c.head_sha.rest # "" /\ c.fails = ""
                         /\ \A i \in DOMAIN c.check_runs : c.check_runs[i].html_url # ""}]
ResolutionCalls ==
    [pr_number : {<< >>, <<PrNumber>>}, sha : {<< >>} \cup {<<s>> : s \in Shas},
     require_checks : {DefaultRequireChecks},
     allow_skipped : {DefaultAllowSkipped},
     github_client : {c \in GithubClients : Len(c.check_runs) = 0}]
NextGate ==
    /\ ~gate_args.called
    /\ \E c \in VerdictCalls \cup ResolutionCalls :
           CiGate(c.pr_number, c.sha, c.require_checks, c.allow_skipped,
                  DefaultRequireConclusion, c.github_client)
SpecGate == Init /\ [][NextGate]_vars

\* One call of send_ready_report, with whatever GitHub and the mail server
\* answer.  A gh call that fails returns nothing, so the check runs of a
\* failing client are left out.
ReportClients ==
    {c \in GithubClients :
        /\ c.head_sha.rest = ""
        /\ c.fails # "" => c.check_runs = << >>}
NextReport ==
    \E local_commands \in LocalCommands, notes \in Notes,
       github_client \in ReportClients, am \in {"ok", "error"} :
        send_ready_report(local_commands, notes, github_client, am)
SpecReport == Init /\ [][NextReport]_vars

\* The streaming adapter, started by main, fed by a server that may refuse,
\* fail, stream up to MaxStreamEvents envelopes and other lines, and hang up.
NextSSE ==
    \/ \E cfg \in SinkConfigs : main("sse", cfg)
    \/ ConnectRefused
    \/ RefusedRetry
    \/ ConnectOk
    \/ fails < MaxFails /\ ConnectFail
    \/ StreamSkip
    \/ StreamInvalidJson
    \/ \E data \in WireEnvelopes, env \in AdapterEnvs :
          /\ Len(history) < MaxStreamEvents
          /\ HandlerRaises(data, env) => fails < MaxFails
          /\ StreamData(data, env)
    \/ fails < MaxFails /\ StreamHandlerError
    \/ fails < MaxFails /\ StreamEnd
    \/ fails < MaxFails /\ StreamError
    \/ BackoffRetry
SpecSSE == Init /\ [][NextSSE]_vars

\* The polling adapter, started by main, and the server writing and removing
\* the signal file at any moment, before or after the adapter starts.
NextPoll ==
    \/ \E cfg \in SinkConfigs : main("file", cfg)
    \/ \E content \in Contents : file_mtime < MaxWrites /\ WriteSignal(content)
    \/ DeleteSignal
    \/ PollInitExists
    \/ PollInitStat
    \/ PollExists
    \/ PollStat
    \/ \E env \in AdapterEnvs : PollRead(env)
    \/ PollSleep
SpecPoll == Init /\ [][NextPoll]_vars

\* The watcher as a whole: main starts the adapter --method names, or exits.
\* The signal file is written while the polling adapter runs.
MaxRunEvents == 1
MaxRunWrites == 1
MaxRunFails == 2
WatcherEnvs == AdapterEnvs \cup {[failing |-> {}, fetch |-> r] : r \in FetchResponses}
NextWatcher ==
    \/ \E m \in Methods, cfg \in SinkConfigs : main(m, cfg)
    \/ ConnectRefused
    \/ RefusedRetry
    \/ ConnectOk
    \/ fails < MaxRunFails /\ ConnectFail
    \/ StreamSkip
    \/ StreamInvalidJson
    \/ \E data \in WireEnvelopes, env \in WatcherEnvs :
          /\ Len(history) < MaxRunEvents
          /\ HandlerRaises(data, env) => fails < MaxRunFails
          /\ StreamData(data, env)
    \/ fails < MaxRunFails /\ StreamHandlerError
    \/ fails < MaxRunFails /\ StreamEnd
    \/ fails < MaxRunFails /\ StreamError
    \/ BackoffRetry
    \/ \E content \in Contents :
          method = "file" /\ file_mtime < MaxRunWrites /\ WriteSignal(content)
    \/ method = "file" /\ DeleteSignal
    \/ PollInitExists
    \/ PollInitStat
    \/ PollExists
    \/ PollStat
    \/ \E env \in WatcherEnvs : PollRead(env)
    \/ PollSleep
SpecWatcher == Init /\ [][NextWatcher]_vars

\* The streaming adapter with the scheduling asyncio gives it: a sleep that
\* was started ends, so the step after each of the two sleeps is taken.
MaxLiveEvents == 1
NextSSELive ==
    \/ \E cfg \in SinkConfigs : main("sse", cfg)
    \/ ConnectRefused
    \/ RefusedRetry
    \/ ConnectOk
    \/ fails < MaxFails /\ ConnectFail
    \/ StreamSkip
    \/ StreamInvalidJson
    \/ \E data \in HandlerEnvelopes, env \in AdapterEnvs :
          /\ Len(history) < MaxLiveEvents
          /\ HandlerRaises(data, env) => fails < MaxFails
          /\ StreamData(data, env)
    \/ fails < MaxFails /\ StreamHandlerError
    \/ fails < MaxFails /\ StreamEnd
    \/ fails < MaxFails /\ StreamError
    \/ BackoffRetry
SpecSSEFair ==
    Init /\ [][NextSSELive]_vars /\ WF_vars(RefusedRetry) /\ WF_vars(BackoffRetry)

-----------------------------------------------------------------------------
(* Properties *)

\* the queue of subscribe call s is in the registry, under its key
InRegistry(s) == skey[s] \in DOMAIN channels /\ s \in Range(channels[skey[s]])

\* the events of key k numbered lo+1 .. hi, in publish order
Events(k, lo, hi) == [i \in 1 .. (hi - lo) |-> Event(k, lo + i)]

Min(a, b) == IF a <= b THEN a ELSE b

\* this step is broadcast's critical section
DeliverStep == bpc = "b_locked" /\ bpc' = "idle"

\* C1, first half: a registered subscriber that has pulled nothing holds
\* exactly the last min(n, 50) of the n events broadcast to its key since it
\* registered, in publish order
C1_HoldsLast ==
    \A s \in Subs : (InRegistry(s) /\ received[s] = << >>) =>
        LET k == skey[s]
            n == Delivered(k) - regAt[s]
        IN  queue[s] = Events(k, Delivered(k) - Min(n, 50), Delivered(k))

\* C1, second half: a broadcast that finds a queue at capacity discards
\* exactly its oldest event and then enqueues the new one
C1_DropsOldest ==
    \A s \in Subs :
        (DeliverStep /\ InRegistry(s) /\ skey[s] = KeyOf(bev) /\ Len(queue[s]) = 50)
            => queue'[s] = Append(Tail(queue[s]), bev)

\* C1: drop-oldest overflow: a subscriber that pulls nothing holds the last
\* min(n, 50) events in publish order, and a broadcast to a full queue
\* discards the oldest pending event and enqueues the new one
C1_DropOldestOverflow == []C1_HoldsLast /\ [][C1_DropsOldest]_vars

\* a subscriber that pulled nothing, past capacity: the queue is full and
\* overflow has discarded its first events
C1_Witness ==
    \E s \in Subs :
        /\ InRegistry(s) /\ received[s] = << >>
        /\ Delivered(skey[s]) - regAt[s] > 50
        /\ Len(queue[s]) = 50
        /\ dropped[s] >= 1

\* C2: every event broadcast to a key while a subscriber is registered on it
\* is accounted for by that subscriber alone: it was pulled by it, discarded
\* by its own overflow, or is pending in its queue, and the pending ones are
\* the most recent ones in publish order - whatever the other subscribers of
\* the key have consumed
C2_IndependentDelivery ==
    \A s \in Subs : InRegistry(s) =>
        LET k == skey[s] IN
        /\ Len(received[s]) + dropped[s] + Len(queue[s]) = Delivered(k) - regAt[s]
        /\ queue[s] = Events(k, Delivered(k) - Len(queue[s]), Delivered(k))

\* two subscribers of one key, registered together: one has pulled twice and
\* lost nothing, the other pulled nothing and its full queue overflowed
C2_Witness ==
    \E a, b \in Subs :
        /\ a # b /\ InRegistry(a) /\ InRegistry(b) /\ skey[a] = skey[b]
        /\ regAt[a] = regAt[b]
        /\ Len(received[a]) = 2 /\ dropped[a] = 0
        /\ received[b] = << >> /\ dropped[b] >= 1 /\ Len(queue[b]) = 50

\* C3, the step: a broadcast that finds no queue under its key changes neither
\* the registry nor any queue, and returns
C3_NoOpStep ==
    (DeliverStep /\ ChannelsGet(KeyOf(bev)) = << >>)
        => (channels' = channels /\ queue' = queue /\ lock' = "free")

\* C3, nothing is buffered: a queue is empty when it is registered, and every
\* event it ever holds or yields was broadcast after its registration
C3_NothingBuffered ==
    \A s \in Subs :
        /\ spc[s] \in {"sub_lock", "sub_key", "sub_append"} => queue[s] = << >>
        /\ \A i \in 1 .. Len(queue[s]) : queue[s][i].timestamp > regAt[s]
        /\ \A i \in 1 .. Len(received[s]) : received[s][i].timestamp > regAt[s]

\* C3: a broadcast to a key with no registered subscriber is a no-op: the
\* registry and every queue are unchanged, and a later subscriber of the key
\* finds nothing buffered
C3_NoSubscriberNoOp == [][C3_NoOpStep]_vars /\ []C3_NothingBuffered

\* events were broadcast to a key nobody had subscribed to, and the first
\* subscriber of that key, registered afterwards, has an empty queue
C3_Witness ==
    \E s \in Subs :
        /\ InRegistry(s) /\ regAt[s] >= 1
        /\ queue[s] = << >> /\ received[s] = << >>
        /\ \A t \in Subs \ {s} : spc[t] = "none"

\* the subscribe calls whose queue is registered and not yet removed, read off
\* the generators' positions while nobody is inside a critical section
LiveSubs == {s \in Subs : spc[s] \in {"get", "yielded", "fin_lock"}}

\* C4: whenever the registry lock is free, no key maps to an empty list, and
\* the keys present are exactly the keys of the live subscriptions
C4_RegistryInvariant ==
    lock = "free" =>
        /\ \A k \in DOMAIN channels : channels[k] # << >>
        /\ DOMAIN channels = {skey[s] : s \in LiveSubs}

\* a key was dropped with its last subscriber while another key stays
C4_Witness ==
    /\ lock = "free"
    /\ \E s, t \in Subs :
        /\ spc[s] = "done" /\ received[s] # << >>
        /\ skey[s] \notin DOMAIN channels
        /\ InRegistry(t)

\* C5, the states: a generator that has finished has no queue in the registry,
\* and every registered queue belongs to a generator that is in its consuming
\* loop or in the finally clause that removes it
C5_NoOrphanState ==
    \A s \in Subs :
        /\ spc[s] = "done" => \A k \in DOMAIN channels : s \notin Range(channels[k])
        /\ (\E k \in DOMAIN channels : s \in Range(channels[k])) =>
              /\ spc[s] \in {"get", "yielded", "fin_lock", "fin_filter"}

\* C5, the step: removing one subscriber's queue leaves every other queue
\* where it was
C5_OthersStay ==
    \A s \in Subs : (spc[s] = "fin_filter" /\ spc'[s] = "fin_del") =>
        \A k \in DOMAIN channels :
            /\ k \in DOMAIN channels'
            /\ channels'[k] = SelectSeq(channels[k], LAMBDA x : x # s)

\* C5: no orphaned subscriptions: however the consuming loop ends, the queue
\* is removed, only that queue is removed, and every registered queue
\* belongs to a generator that has not finished
C5_NoOrphans == []C5_NoOrphanState /\ [][C5_OthersStay]_vars

\* a subscriber has finished after consuming, and another subscriber of the
\* same key is still registered
C5_Witness ==
    \E s, t \in Subs :
        /\ spc[s] = "done" /\ received[s] # << >>
        /\ skey[t] = skey[s] /\ InRegistry(t)

\* C6: once broadcast holds the lock, its step is enabled as the state stands
\* - no subscriber has to move, even when queues of the key are full - and
\* that step leaves the event as the newest element of every queue of the key
C6_PublisherNeverBlocks ==
    bpc = "b_locked" =>
        ENABLED (/\ BroadcastDeliver
                 /\ bpc' = "idle" /\ lock' = "free"
                 /\ \A s \in Range(ChannelsGet(KeyOf(bev))) :
                        /\ queue'[s] # << >>
                        /\ queue'[s][Len(queue'[s])] = bev)

\* broadcast holds the lock over two queues of its key, one full and one not
C6_Witness ==
    /\ bpc = "b_locked"
    /\ \E a, b \in Subs :
        /\ a # b /\ InRegistry(a) /\ InRegistry(b)
        /\ skey[a] = KeyOf(bev) /\ skey[b] = KeyOf(bev)
        /\ Len(queue[a]) = 50 /\ Len(queue[b]) < 50

\* C7: a generator suspended in queue.get() or at its yield never holds the
\* registry lock; whoever holds it is inside a critical section, none of
\* which waits for a queue
C7_LockNotHeldWhileWaiting ==
    /\ \A s \in Subs : spc[s] \in {"get", "yielded"} => lock # s
    /\ \A s \in Subs :
           lock = s => spc[s] \in {"sub_key", "sub_append", "fin_filter", "fin_del"}
    /\ lock = Publisher => bpc = "b_locked"

\* a subscriber waits on its empty queue while another task holds the lock
C7_Witness ==
    \E s \in Subs : spc[s] = "get" /\ queue[s] = << >> /\ lock \notin {"free", s}

\* C8, as claimed: an event broadcast to the key of a handle that subscribe
\* has returned, and that was not pulled from yet, is enqueued on its queue
C8_RegisteredOnReturn ==
    [][\A s \in Subs :
          (spc[s] = "created" /\ DeliverStep /\ KeyOf(bev) = skey[s])
              => queue'[s] = Append(queue[s], bev)]_vars

\* C9: what one subscriber receives is an order-preserving subsequence of the
\* events broadcast to its key while it was registered: events of its key,
\* broadcast after its registration, in strictly increasing publish order
C9_OrderedSubsequence ==
    \A s \in Subs :
        /\ \A i \in 1 .. Len(received[s]) :
              /\ KeyOf(received[s][i]) = skey[s]
              /\ received[s][i].timestamp > regAt[s]
              /\ received[s][i].timestamp <= Delivered(skey[s])
        /\ \A i, j \in 1 .. Len(received[s]) :
              i < j => received[s][i].timestamp < received[s][j].timestamp

\* a subscriber received two events between which overflow discarded one
C9_Witness ==
    \E s \in Subs :
        /\ Len(received[s]) = 2
        /\ received[s][2].timestamp > received[s][1].timestamp + 1

\* C10, as claimed: the verdict is True exactly when the id is non-zero and
\* at most the last seen id, or timestamp and id both equal the last seen ones
C10_AsClaimed ==
    verdict.called =>
        verdict.result =
            (\/ verdict.message_id # 0 /\ verdict.message_id <= verdict.seen_id
             \/ /\ verdict.timestamp = verdict.seen_timestamp
                /\ verdict.message_id = verdict.seen_id)

\* C10, amended: the verdict is True exactly when the id is non-zero and at
\* most the last seen id, or the timestamp is non-empty and timestamp and id
\* both equal the last seen ones
C10_DedupRule ==
    verdict.called =>
        verdict.result =
            (\/ verdict.message_id # 0 /\ verdict.message_id <= verdict.seen_id
             \/ /\ verdict.timestamp # ""
                /\ verdict.timestamp = verdict.seen_timestamp
                /\ verdict.message_id = verdict.seen_id)

\* an event without a message id is reported duplicate by the timestamp rule
C10_Witness ==
    /\ verdict.called /\ verdict.result
    /\ verdict.message_id = 0
    /\ verdict.timestamp # "" /\ verdict.timestamp = verdict.seen_timestamp

\* the largest element of a non-empty sequence of integers
MaxOf(seq) == CHOOSE m \in Range(seq) : \A x \in Range(seq) : x <= m

\* the last event fed to the guard is larger than every event before it
LastIsNewMax ==
    \A j \in 1 .. Len(history) - 1 : history[Len(history)] > history[j]

\* C11, as claimed: in a run of events that all carry a non-zero id, an event
\* is novel exactly when its id exceeds every earlier id, and the high-water
\* mark is the largest id fed
C11_AsClaimed ==
    (history # << >> /\ \A i \in 1 .. Len(history) : history[i] # 0) =>
        /\ verdict.result = ~LastIsNewMax
        /\ last_seen_message_id = MaxOf(history)

\* C11, amended: in a run of events that all carry a positive id, an event is
\* novel exactly when its id exceeds every earlier id, and the high-water
\* mark is the largest id fed
C11_HighWaterVerdicts ==
    (history # << >> /\ \A i \in 1 .. Len(history) : history[i] > 0) =>
        /\ verdict.result = ~LastIsNewMax
        /\ last_seen_message_id = MaxOf(history)

\* the run 1, 1, 2, 1, 3 (the pattern of 5, 5, 6, 5, 7): its last event is
\* novel and the mark is 3
C11_Witness ==
    /\ history = <<1, 1, 2, 1, 3>>
    /\ ~verdict.result
    /\ last_seen_message_id = 3

\* what C12 says of the message-id mark in one step: it never decreases, and
\* it changes only on a novel verdict, to the event's strictly larger id
MarkAdvances ==
    /\ last_seen_message_id' >= last_seen_message_id
    /\ last_seen_message_id' # last_seen_message_id =>
          /\ ~verdict'.result
          /\ last_seen_message_id' = verdict'.message_id
          /\ last_seen_message_id' > last_seen_message_id

\* C12, as claimed: the mark is monotonic, and a novel verdict replaces
\* last_seen_timestamp by the event's timestamp
C12_AsClaimed ==
    [][/\ MarkAdvances
       /\ ~verdict'.result => last_seen_timestamp' = verdict'.timestamp
       /\ verdict'.result => last_seen_timestamp' = last_seen_timestamp]_dvars

\* C12, amended: the mark is monotonic, and a novel verdict replaces
\* last_seen_timestamp by the event's timestamp when that timestamp is not
\* empty; an empty one leaves it as it was
C12_MonotonicMark ==
    [][/\ MarkAdvances
       /\ ~verdict'.result =>
             last_seen_timestamp' = IF verdict'.timestamp # ""
                                    THEN verdict'.timestamp
                                    ELSE last_seen_timestamp
       /\ verdict'.result => last_seen_timestamp' = last_seen_timestamp]_dvars

\* a novel verdict has raised a mark that was already positive, and replaced
\* the timestamp
C12_Witness ==
    /\ verdict.called /\ ~verdict.result
    /\ verdict.seen_id >= 1 /\ last_seen_message_id > verdict.seen_id
    /\ verdict.seen_timestamp # "" /\ last_seen_timestamp # verdict.seen_timestamp

\* C13, as claimed, for the events that carry a timestamp: an event without a
\* message id is a duplicate exactly when its timestamp equals the last seen
\* one, whatever the high-water mark
C13_TimestampOnly ==
    (verdict.called /\ verdict.message_id = 0 /\ verdict.timestamp # "") =>
        verdict.result = (verdict.timestamp = verdict.seen_timestamp)

\* how many times sink s was invoked for message id
SinkRuns(s, id) ==
    Cardinality({i \in 1 .. Len(sink_calls) : sink_calls[i] = <<s, id>>})

\* how many times message id was handed to the handler
Arrivals(id) == Cardinality({i \in 1 .. Len(history) : history[i] = id})

\* message id exceeded every id handed before it when it first arrived
NovelOnArrival(id) ==
    \E i \in 1 .. Len(history) :
        /\ history[i] = id
        /\ \A j \in 1 .. i - 1 : history[j] < id

RECURSIVE Pow(_, _)
Pow(b, n) == IF n = 0 THEN 1 ELSE b * Pow(b, n - 1)

\* the fraction d equals min(30, 1.5^n)
IsCappedPower(d, n) ==
    IF Pow(3, n) > 30 * Pow(2, n)
    THEN d[1] = 30 * d[2]
    ELSE d[1] * Pow(2, n) = Pow(3, n) * d[2]

\* C15: the sleep after the k-th failure in a row (a pass through the backoff
\* sleep with no 200 response since the previous one) lasts
\* min(30, 1.5^(k-1)), and a 200 response puts the delay back to 1
C15_BackoffSchedule ==
    /\ wpc = "backoff" => fails >= 1 /\ IsCappedPower(retry_delay, fails - 1)
    /\ wpc = "streaming" => retry_delay[1] = retry_delay[2]

\* the adapter sleeps 2.25 after the third failure in a row
C15_Witness == wpc = "backoff" /\ fails = 3 /\ retry_delay = <<9, 4>>

\* C16, as claimed: the sleep after any failed attempt, a refusal included,
\* is followed by the delay multiplied by 1.5 up to the ceiling of 30
C16_EveryFailureAdvances ==
    [][(wpc \in {"refused", "backoff"} /\ wpc' = "connect") =>
          IF 3 * retry_delay[1] > 30 * 2 * retry_delay[2]
          THEN retry_delay' = <<30, 1>>
          ELSE retry_delay' = <<3 * retry_delay[1], 2 * retry_delay[2]>>]_vars

\* C17: the retry delay is at least 1 and at most 30
C17_DelayWithinBounds ==
    /\ retry_delay[2] > 0
    /\ retry_delay[1] >= retry_delay[2]
    /\ retry_delay[1] <= 30 * retry_delay[2]

\* the adapter sleeps at the ceiling after MaxFails failures in a row
C17_Witness ==
    wpc = "backoff" /\ fails = MaxFails /\ retry_delay = <<30, 1>>

\* C18: the streaming adapter never ends; every failure puts it to sleep, and
\* after each sleep it attempts the connection again
C18_AlwaysReconnects ==
    /\ [](wpc # "exit")
    /\ [][fails' > fails => wpc' = "backoff"]_vars
    /\ (wpc \in {"refused", "backoff"}) ~> (wpc = "connect")

\* the adapter is asleep after a handler error on an open stream
C18_Witness == wpc = "backoff" /\ last_line = "raised" /\ fails = 1

\* C19: a data line that is not JSON changes neither the dedup state, nor the
\* sinks' record, nor the delay, and leaves the adapter on the stream; the
\* data line after it is handled as any other
C19_InvalidJsonSkipped ==
    /\ [][(last_line # "invalid" /\ last_line' = "invalid") =>
             /\ wpc = "streaming" /\ wpc' = "streaming"
             /\ UNCHANGED <<dvars, history, sink_calls, retry_delay, fails>>]_vars
    /\ [][(last_line = "invalid" /\ last_line' = "data") =>
             /\ wpc' = IF ~verdict'.result /\ outcome'.raised
                       THEN "backoff" ELSE "streaming"
             /\ history' = Append(history, verdict'.message_id)
             /\ verdict'.seen_id = last_seen_message_id
             /\ verdict'.seen_timestamp = last_seen_timestamp
             /\ verdict'.result =
                   DupVerdict(verdict'.message_id, verdict'.timestamp)
             /\ Len(sink_calls') =
                   IF verdict'.result THEN Len(sink_calls)
                   ELSE Len(sink_calls)
                        + (IF enabled = {} THEN 1 ELSE Len(outcome'.invoked))]_vars

\* an invalid line was read after an event had been handled and its sinks run
C19_Witness ==
    /\ wpc = "streaming" /\ last_line = "invalid"
    /\ history # << >> /\ sink_calls # << >>

\* C20: a tick is over.  If the file was written once since the adapter last
\* looked at it, with an envelope, and was left alone during the tick, the
\* tick handed exactly one envelope to the handler; if the file was not
\* written since, the tick handed none.
C20_OneEnvelopePerChange ==
    wpc = "poll_sleep" =>
        /\ (tick.seen = 1 /\ tick.quiet /\ file_content.kind = "envelope") =>
              tick.handed = 1
        /\ tick.seen = 0 => tick.handed = 0

\* a tick over an unchanged file is over and handed nothing, after an earlier
\* tick handed the one envelope written
C20_Witness ==
    /\ wpc = "poll_sleep" /\ file_exists /\ file_mtime = 1
    /\ last_mtime = 1 /\ fresh = 0
    /\ tick = [handed |-> 0, seen |-> 0, quiet |-> TRUE]
    /\ Len(history) = 1

\* the positions of the polling loop (after the baseline was taken)
PollLoop == {"poll_exists", "poll_stat", "poll_read", "poll_sleep"}

\* C21: a tick that finds no file, and a tick that reads text that is not
\* JSON, change neither the dedup state nor the sinks' record and go to the
\* sleep, from which the next tick starts
C21_HarmlessTick ==
    /\ [][(wpc = "poll_exists" /\ ~file_exists /\ wpc' # wpc) =>
             /\ wpc' = "poll_sleep"
             /\ UNCHANGED <<dvars, history, sink_calls>>]_vars
    /\ [][(wpc = "poll_read" /\ file_exists /\ file_content.kind = "not_json"
                             /\ wpc' # wpc) =>
             /\ wpc' = "poll_sleep"
             /\ UNCHANGED <<dvars, history, sink_calls>>]_vars
    /\ [][(wpc = "poll_sleep" /\ wpc' # wpc) => wpc' = "poll_exists"]_vars

\* a tick has read text that is not JSON, after an earlier tick handled an
\* envelope
C21_Witness ==
    /\ wpc = "poll_sleep" /\ file_exists /\ file_content.kind = "not_json"
    /\ tick.seen = 1 /\ tick.quiet /\ tick.handed = 0
    /\ last_mtime = file_mtime
    /\ history # << >>

\* C22, as claimed: once in the polling loop the watcher stays in it
C22_LoopKeepsTicking ==
    [][(wpc \in PollLoop) => (wpc' \in PollLoop)]_vars

\* the last call of _handle_event went past the guard with sinks enabled
LastWasDispatched == verdict.called /\ ~verdict.result /\ enabled # {}

\* C23, as claimed: for a novel event every enabled sink is invoked, whichever
\* of them fails, and the handler does not raise
C23_SinkIsolation ==
    LastWasDispatched =>
        /\ ~outcome.raised
        /\ Range(outcome.invoked) = enabled

\* the sinks _handle_event runs after the inbox fetch
AfterFetch == {"on_notify", "buffer_file", "sentinel_file"}

\* the last call ran the inbox fetch, and the fetch did not print a message
FetchFailed ==
    /\ LastWasDispatched
    /\ "auto_fetch" \in Range(outcome.invoked)
    /\ outcome.fetch # "Latest"

\* C24: when the inbox fetch fails, in whichever way, the handler does not
\* raise and has invoked every enabled sink that comes after the fetch; the
\* adapter stays on its stream, or goes to its sleep, as after any event
C24_FetchFailureContained ==
    /\ [](FetchFailed =>
             /\ ~outcome.raised
             /\ enabled \cap AfterFetch \subseteq Range(outcome.invoked))
    /\ [][(history' # history /\ FetchFailed') =>
             /\ wpc = "streaming" => wpc' = "streaming"
             /\ wpc = "poll_read" => wpc' = "poll_sleep"]_vars

\* a streamed event's fetch was refused by the server and the sentinel sink
\* ran after it; the adapter is on the stream
C24_Witness ==
    /\ FetchFailed /\ outcome.fetch = "Auto-fetch error"
    /\ "sentinel_file" \in Range(outcome.invoked)
    /\ sink_calls[Len(sink_calls)][1] = "sentinel_file"
    /\ wpc = "streaming" /\ last_line = "data"

\* the positions of the streaming adapter
StreamLoop == {"connect", "refused", "streaming", "backoff"}

\* C25: with method "file" the watcher is in the polling adapter (or ended by
\* an error of it) and the streaming adapter never ran; with "sse" it is in
\* the streaming adapter and the polling adapter never ran; with any other
\* method it has exited with status 1, no event handled and no sink invoked
C25_TransportSelection ==
    /\ method = "file" =>
          /\ wpc \in {"poll_init", "poll_init_stat", "crashed"} \cup PollLoop
          /\ fails = 0 /\ last_line = "none" /\ exit_code = -1
    /\ method = "sse" =>
          /\ wpc \in StreamLoop
          /\ last_mtime = 0 /\ tick.handed = 0 /\ exit_code = -1
    /\ method \notin {"none", "file", "sse"} =>
          /\ wpc = "exit" /\ exit_code = 1
          /\ history = << >> /\ sink_calls = << >>
          /\ fails = 0 /\ last_line = "none"
          /\ last_mtime = 0 /\ tick.handed = 0
    /\ method = "none" => wpc = "init"

\* main was given a method it does not know and has exited with status 1
C25_Witness ==
    method = "other" /\ enabled # {} /\ wpc = "exit" /\ exit_code = 1

\* what handing the payload p to json.loads and then to _handle_event does to
\* the handler's state, whichever adapter does it
HandlerStep(p) ==
    IF p.kind = "envelope"
    THEN \E env \in WatcherEnvs : handle_event(p.data, env)
    ELSE UNCHANGED <<dvars, history, sinkvars>>

HasHeader(buf) ==
    buf.present /\ buf.lines # << >> /\ buf.lines[1].k = "title"

\* C28: the buffer-file sink suppresses duplicates: called for an event whose
\* row is already in a file with the expected header it leaves the file as it
\* is; called on an absent file or one without the header it leaves the
\* header and that one row
C28_BufferIdempotent ==
    /\ [][(sink_calls' # sink_calls /\ HasHeader(buffer)
             /\ RowLine(payload'.data) \in Range(buffer.lines)) =>
             buffer' = buffer]_vars
    /\ [][(sink_calls' # sink_calls /\ ~HasHeader(buffer)) =>
             buffer' = [present |-> TRUE,
                        lines |-> HeaderLines \o <<RowLine(payload'.data)>>]]_vars

\* whether the formatted text has a line of kind k with the value v
HasLine(text, k, v) == \E i \in DOMAIN text : text[i].k = k /\ text[i].v = v
\* ci_gate returned a result to send_ready_report
GateReported == gate_result # NoGateResult

\* C29: send_ready_report sends only after the gate has passed: when ci_gate
\* reported ok false the call raised ValueError with a text that begins "CI
\* gate failed" and send_message was not called; whenever send_message was
\* called, ci_gate had returned a result with ok true
C29_GateBeforeSend ==
    /\ (GateReported /\ ~gate_result.ok) =>
          /\ rpc = "raised" /\ report.raised = "ValueError"
          /\ report.message[1] = [k |-> "text", v |-> "CI gate failed for SHA "]
          /\ sent_messages = << >>
    /\ sent_messages # << >> => (GateReported /\ gate_result.ok)

\* the gate found a blocked check and the call raised
C29_Witness ==
    /\ rpc = "raised" /\ GateReported /\ ~gate_result.ok
    /\ gate_result.failed # << >>
    /\ HasLine(report.message, "name", "Fast Tests (ubuntu)")
    /\ sent_messages = << >>

\* C30: when the gate passes, send_message is called exactly once, the call
\* returns message_sent true (if send_message returns), and the body has the
\* gate's SHA, every required check's name, every local command and the run
\* URL of the gate result
C30_ReportContents ==
    (GateReported /\ gate_result.ok) =>
        /\ Len(sent_messages) = 1
        /\ rpc = "returned" => report.message_sent
        /\ LET body == sent_messages[1].body_md IN
           /\ HasLine(body, "sha", gate_result.sha)
           /\ \A i \in DOMAIN DefaultRequireChecks :
                 HasLine(body, "check", DefaultRequireChecks[i])
           /\ \A i \in DOMAIN call_args.local_commands :
                 HasLine(body, "command", call_args.local_commands[i])
           /\ gate_result.url # "None" => HasLine(body, "run", gate_result.url)

\* the ci_gate call returned a result
GateReturned == gate_args.called /\ gate_return.raised = ""
\* the run ci_gate judges the check n by: the last of that name, if there is one
HasRun(n) == \E i \in DOMAIN gate_args.check_runs : gate_args.check_runs[i].name = n
JudgedRun(n) ==
    gate_args.check_runs[CHOOSE i \in DOMAIN gate_args.check_runs :
        /\ gate_args.check_runs[i].name = n
        /\ \A j \in DOMAIN gate_args.check_runs :
              gate_args.check_runs[j].name = n => j <= i]
\* how many entries of the failed list name the check n
FailedEntries(n) ==
    Cardinality({i \in DOMAIN gate_return.value.failed :
                    gate_return.value.failed[i].name = n})

\* C31: the verdict of ci_gate: ok is true exactly when the failed list is
\* empty; a required check that has no run, or whose run is not completed or
\* has another conclusion than the required one, has exactly one entry in the
\* failed list (and a required check that succeeded has none); a check that
\* is not required, is skipped and is named in allow_skipped has none
C31_GateVerdict ==
    GateReturned =>
        /\ gate_return.value.ok <=> (gate_return.value.failed = << >>)
        /\ \A i \in DOMAIN gate_args.require_checks :
              LET n == gate_args.require_checks[i]
                  blocked == \/ ~HasRun(n)
                             \/ JudgedRun(n).status # "completed"
                             \/ JudgedRun(n).conclusion # gate_args.require_conclusion
              IN  FailedEntries(n) = IF blocked THEN 1 ELSE 0
        /\ \A n \in gate_args.allow_skipped \ Range(gate_args.require_checks) :
              (HasRun(n) /\ JudgedRun(n).status = "completed"
                 /\ JudgedRun(n).conclusion = "skipped") => FailedEntries(n) = 0

\* two required checks, one without a run and one still running, and an
\* allowed check that was skipped: two entries
C31_Witness ==
    /\ GateReturned /\ ~gate_return.value.ok
    /\ Len(gate_args.require_checks) = 2
    /\ Len(gate_return.value.failed) = 2
    /\ \E i \in 1 .. 2 : gate_return.value.failed[i].reason = "missing"
    /\ \E i \in 1 .. 2 : gate_return.value.failed[i].reason = "unsuccessful"
    /\ HasRun("Full Tests") /\ JudgedRun("Full Tests").conclusion = "skipped"
    /\ "Full Tests" \in gate_args.allow_skipped

\* C32: how ci_gate resolves the SHA (the client answering): with pr_number
\* given, the check runs are looked up for the PR's head SHA the client
\* gave, and the result reports it, whether or not sha is given too; with
\* only sha given, that sha is looked up and reported as it is; with neither,
\* ValueError is raised and get_check_runs was not called
C32_ShaResolution ==
    (gate_args.called /\ gate_args.fails = "") =>
        /\ gate_args.pr_number # << >> =>
              /\ gate_return.raised = ""
              /\ gate_return.lookups = <<gate_args.head_sha>>
              /\ gate_return.value.sha = gate_args.head_sha
        /\ (gate_args.pr_number = << >> /\ gate_args.sha # << >>) =>
              /\ gate_return.raised = ""
              /\ gate_return.lookups = gate_args.sha
              /\ gate_return.value.sha = gate_args.sha[1]
        /\ (gate_args.pr_number = << >> /\ gate_args.sha = << >>) =>
              /\ gate_return.raised = "ValueError"
              /\ gate_return.lookups = << >>

\* pr_number and another sha were both given: the PR's head is reported
C32_Witness ==
    /\ GateReturned
    /\ gate_args.pr_number = <<PrNumber>> /\ gate_args.sha # << >>
    /\ gate_args.sha[1] # gate_args.head_sha
    /\ gate_return.value.sha = gate_args.head_sha

\* C40: every check outside require_checks that did not succeed blocks the
\* gate: ok is false whenever such a check's run is not completed or is
\* completed with another conclusion than success, unless the check is
\* skipped and named in allow_skipped
C40_NonSuccessBlocks ==
    GateReturned =>
        \A n \in CheckNames \ Range(gate_args.require_checks) :
            (/\ HasRun(n)
             /\ \/ JudgedRun(n).status # "completed"
                \/ JudgedRun(n).conclusion # "success"
             /\ ~(JudgedRun(n).conclusion = "skipped" /\ n \in gate_args.allow_skipped))
            => ~gate_return.value.ok

\* C33: routing isolation: the loop of broadcast changes no queue whose
\* subscribe call has another key than the event's; so every event that is
\* in a queue, and every event a subscriber was given, has the project and
\* the agent that subscriber subscribed with
C33_RoutingIsolation ==
    /\ [][(bpc = "b_locked" /\ bpc' = "idle") =>
             \A s \in Subs : skey[s] # KeyOf(bev) => queue'[s] = queue[s]]_vars
    /\ [](\A s \in Subs :
             /\ \A i \in DOMAIN queue[s] : KeyOf(queue[s][i]) = skey[s]
             /\ \A i \in DOMAIN received[s] : KeyOf(received[s][i]) = skey[s])

\* two registered queues under different keys, events sent to both keys: one
\* queue got its event and gave it out, the other holds its own
C33_Witness ==
    /\ InRegistry("s1") /\ InRegistry("s2") /\ skey["s1"] # skey["s2"]
    /\ sent[skey["s1"]] > 0 /\ sent[skey["s2"]] > 0 /\ bpc = "idle"
    /\ received["s1"] # << >> /\ queue["s2"] # << >>

\* C34: bounded buffering: whatever the subscribers and the publisher do,
\* no subscriber's queue holds more than maxsize = 50 events
C34_BoundedBuffering ==
    \A s \in Subs : Len(queue[s]) <= QueueMaxSize

\* a queue is full, has been so before (an event was dropped for it), and
\* its subscriber has pulled
C34_Witness ==
    \E s \in Subs :
        /\ Len(queue[s]) = QueueMaxSize
        /\ dropped[s] > 0
        /\ received[s] # << >>

\* C35: the newest event is never the one dropped: when broadcast's critical
\* section is over, the event is the last element of every queue that was
\* registered under its key, whether the queue was empty, partly filled or
\* full before
C35_NewestKept ==
    [][DeliverStep =>
          \A s \in Subs :
              (KeyOf(bev) \in DOMAIN channels /\ s \in Range(channels[KeyOf(bev)])) =>
                  /\ queue'[s] # << >>
                  /\ queue'[s][Len(queue'[s])] = bev
                  /\ Len(queue'[s]) = Min(Len(queue[s]) + 1, QueueMaxSize)]_vars

\* a broadcast has just returned; it found a queue full, and the queue ends
\* with its event
C35_Witness ==
    /\ bpc = "idle"
    /\ \E s \in Subs :
          /\ InRegistry(s) /\ dropped[s] > 0
          /\ Len(queue[s]) = QueueMaxSize
          /\ queue[s][QueueMaxSize] = Event(skey[s], sent[skey[s]])

\* the last event handed to the handler was novel, and a sink failed on it or
\* the handler raised
FailedOnNovel ==
    /\ verdict.called /\ ~verdict.result /\ payload.kind = "envelope"
    /\ outcome.raised \/ outcome.failing # {}

\* C36: the dedup marks are raised before the first sink runs: when a sink
\* failed or the handler raised for a novel event and the same event is
\* handed in again, it is reported duplicate and no sink runs for it
C36_NoRetryAfterFailure ==
    [][(FailedOnNovel /\ enabled # {} /\ Len(history') = Len(history) + 1
          /\ payload' = payload) =>
          (verdict'.result /\ sink_calls' = sink_calls)]_vars

\* the invocations of sink s for events that carry an id, in order
IdCalls(s) == SelectSeq(sink_calls, LAMBDA c : c[1] = s /\ c[2] # 0)
\* all invocations for events that carry an id, in order
AllIdCalls == SelectSeq(sink_calls, LAMBDA c : c[2] # 0)

\* C37: in one run the ids of the id-bearing events that reach the sinks are
\* strictly increasing (each sink sees a strictly increasing sequence, and
\* the invocations taken together never go back), and an event whose id is
\* not above the high-water mark reaches no sink, seen before or not
C37_IncreasingIds ==
    /\ [](\A s \in Sinks \cup {"raw_signal"} :
             \A i, j \in DOMAIN IdCalls(s) :
                 i < j => IdCalls(s)[i][2] < IdCalls(s)[j][2])
    /\ [](\A i, j \in DOMAIN AllIdCalls : i < j => AllIdCalls[i][2] <= AllIdCalls[j][2])
    /\ [][(Len(history') = Len(history) + 1 /\ payload'.data.message_id # 0
             /\ payload'.data.message_id <= last_seen_message_id) =>
             sink_calls' = sink_calls]_vars

\* id 3 reached the sinks, then id 2 arrived for the first time and reached
\* none, then id 3 again
C37_Witness ==
    /\ enabled # {}
    /\ history = <<3, 2, 3>>
    /\ \A s \in enabled : SinkRuns(s, 3) = 1 /\ SinkRuns(s, 2) = 0

\* C38: the polling adapter's baseline: the stat() taken at the start over a
\* file that exists makes its mtime last_mtime and hands nothing over; a tick
\* goes on to read only a file whose mtime is strictly greater than
\* last_mtime, after a write made since the adapter's previous stat(), the
\* one of the start included; and what the handler is given is the content
\* the file holds at that read
C38_StartupBaseline ==
    /\ [][(wpc = "poll_init_stat" /\ wpc' = "poll_exists") =>
             (last_mtime' = file_mtime /\ UNCHANGED <<dvars, history, sink_calls>>)]_vars
    /\ [][(wpc = "poll_stat" /\ wpc' = "poll_read") =>
             (file_mtime > last_mtime /\ tick'.seen >= 1)]_vars
    /\ [][(history' # history) =>
             (wpc = "poll_read" /\ tick.seen >= 1 /\ file_exists
               /\ file_content.kind = "envelope"
               /\ history' = Append(history, file_content.data.message_id))]_vars
    /\ []((wpc \in PollLoop /\ fresh = 0 /\ last_mtime = 0) => history = << >>)

\* the one write made before the start left an envelope in the file; its
\* mtime is the baseline, a tick over it is done and the handler was not
\* called
C38_Witness ==
    /\ method = "file" /\ wpc = "poll_sleep"
    /\ file_exists /\ file_content.kind = "envelope" /\ file_mtime = 1
    /\ last_mtime = 1 /\ tick.seen = 0 /\ tick.quiet
    /\ history = << >>

\* C39: the polling adapter is single-slot: a tick hands the handler at most
\* one envelope, however many writes were made since the tick before, and
\* that envelope is the content of the file at the read; last_mtime is set to
\* the file's mtime before the read, so after a tick into which no write
\* fell, last_mtime is the file's mtime whether the content parsed or not,
\* and a tick over a file whose mtime is last_mtime reads nothing
C39_SingleSlot ==
    /\ [](tick.handed <= 1)
    /\ [][(wpc = "poll_read" /\ history' # history) =>
             (/\ tick.handed = 0 /\ tick'.handed = 1
              /\ payload' = file_content
              /\ Len(history') = Len(history) + 1
              /\ history'[Len(history')] = file_content.data.message_id)]_vars
    /\ [][(wpc = "poll_stat" /\ wpc' = "poll_read") => (last_mtime' = file_mtime)]_vars
    /\ []((wpc = "poll_sleep" /\ tick.quiet /\ tick.seen >= 1 /\ file_exists) =>
             last_mtime = file_mtime)
    /\ [][(wpc = "poll_stat" /\ wpc' # wpc /\ file_exists /\ file_mtime = last_mtime) =>
             (wpc' = "poll_sleep" /\ UNCHANGED <<dvars, history, sink_calls, last_mtime>>)]_vars

\* two writes were made since the tick before; the tick handed over one
\* envelope, the content of the file, and the first write's content no tick
\* has read
C39_Witness ==
    /\ wpc = "poll_sleep" /\ tick.seen = 2 /\ tick.handed = 1 /\ tick.quiet
    /\ file_exists /\ payload = file_content /\ payload.kind = "envelope"
    /\ last_mtime = file_mtime
    /\ Len(history) = 1

=============================================================================
